---------------------------- MODULE Spec2Model ----------------------------
(***************************************************************************)
(* Chat / presence core of Project-H-Backend: the socket router            *)
(* (socket/setupSocket), the HTTP message controller, the chat controller  *)
(* (getChatMessages) and the group controller, over the Mongo collections  *)
(* PrivateChat, ChatGroup, Message, ChatNotification and UserPresence.     *)
(*                                                                         *)
(* One module, several specifications.  Each specification has its own     *)
(* initial state and next-state relation over the same variables:          *)
(*   SpecJoin      private:join handlers of several sockets, interleaved   *)
(*                 at their awaits                                         *)
(*   SpecGroup     the group controller, one request at a time             *)
(*   SpecSend      the three send paths and deleteMessage, one request at  *)
(*                 a time                                                  *)
(*   SpecReadSeq   read marking, one request at a time                     *)
(*   SpecRead      read marking, requests interleaved at their awaits      *)
(*   SpecPresence  connect / disconnect and the connection registry        *)
(*   SpecCreate    createGroup alone                                       *)
(*   SpecRooms     private:join and group:join of one socket, with failing *)
(*                 store calls and members leaving                         *)
(*   SpecGroupSend the two group send paths while membership, roles and    *)
(*                 activity change                                         *)
(*   SpecReadGroup read marking in a group that gains a member             *)
(*   SpecDelete    sends and deleteMessage                                 *)
(*   SpecMembers   removeMember, changeMemberRole and addMembers on one    *)
(*                 group                                                   *)
(*   SpecManage    updateGroup, deleteGroup and leaveGroup on one group    *)
(*   SpecStatus    the handshake, connections and status:update            *)
(*   SpecSendSteps the writes of concurrent sends, with failing saves      *)
(*   SpecAdd       addMembers with every actor, list and setting           *)
(*   SpecAddSteps  addMembers requests interleaved at their awaits         *)
(*   SpecHook      the pre-save hook on any members list                   *)
(*   SpecTyping    typing events, sends and disconnects of two sockets     *)
(***************************************************************************)
EXTENDS Integers, Sequences, FiniteSets, TLC

\* ------------------------------------------------------------------ bounds
\* Largest value of the logical clock that stands for new Date().
MaxClock == 1
\* Largest number of ChatNotification documents kept in the collection.
MaxNotifs == 3
\* Largest number of PrivateChat documents.
MaxChats == 3
\* Largest number of Message documents ever created.
MaxMsgs == 2
\* Largest length of a message's readBy array.
MaxReadBy == 3

\* ------------------------------------------------------------- identities
\* Accounts of the User collection, in the collection's natural order.
UserOrder == <<"u1", "u2", "u3">>
Users == {UserOrder[i] : i \in 1..Len(UserOrder)}
\* A well-formed id that names no account.
Ghost == "u9"
NoUser == "none"
UserRank(u) == CHOOSE i \in 1..Len(UserOrder) : UserOrder[i] = u

Sockets == {"s1", "s2", "s3"}
NoSocket == "nosock"
GroupIds == {1, 2}
NoGroup == 0
NoChat == 0
NoMsg == 0

VARIABLES
    clock,          \* logical time: the value new Date() returns
    groups,         \* ChatGroup collection: GroupIds -> document or absent
    privateChats,   \* PrivateChat collection: sequence of documents, _id = index
    messages,       \* Message collection: sequence of documents (deleted ones flagged)
    notifications,  \* ChatNotification collection: sequence of documents
    presence,       \* UserPresence collection: Users -> document
    activeUsers,    \* Map userId -> socketId
    userSockets,    \* Map socketId -> userId
    sockets,        \* io.sockets.sockets: Sockets -> [state, user, rooms]
    typingUsers,    \* Map roomId -> Set of userId: per room, whether it has a key, and the set
    tasks,          \* handler invocations that are suspended at an await
    lastOp          \* the request most recently completed, with its outcome

vars == <<clock, groups, privateChats, messages, notifications, presence,
          activeUsers, userSockets, sockets, typingUsers, tasks, lastOp>>

\* ---------------------------------------------------------------- helpers
Range(s) == {s[i] : i \in 1..Len(s)}

RECURSIVE SeqFilter(_, _)
\* Array.prototype.filter with the predicate given as the set of kept values.
SeqFilter(s, keep) ==
    IF s = <<>> THEN <<>>
    ELSE IF Head(s) \in keep THEN <<Head(s)>> \o SeqFilter(Tail(s), keep)
         ELSE SeqFilter(Tail(s), keep)

\* Number of positions of s that hold x.
Count(s, x) == Cardinality({i \in 1..Len(s) : s[i] = x})

\* Array.prototype.splice(i, 1)
RemoveAt(s, i) == [j \in 1..(Len(s) - 1) |-> IF j < i THEN s[j] ELSE s[j + 1]]

\* The environment: time passes between two calls of new Date().
Tick ==
    /\ clock < MaxClock
    /\ clock' = clock + 1

NoOp == [op |-> "none"]

\* [a, b].sort(): ids sort as strings.
Sort2(a, b) == IF UserRank(a) <= UserRank(b) THEN <<a, b>> ELSE <<b, a>>
\* `private:${participants.join('-')}`
PrivateRoom(a, b) == [kind |-> "private", key |-> Sort2(a, b)]
\* `group:${groupId}`
GroupRoom(gid) == [kind |-> "group", key |-> <<gid>>]
\* The room ids clients name.
Rooms ==
    {PrivateRoom(a, b) : a, b \in Users} \cup {GroupRoom(gid) : gid \in GroupIds}
\* A falsy roomId.
NoRoom == [kind |-> "none", key |-> <<>>]
\* String.prototype.trim, and the trim setter of a schema string, on the
\* strings used here: the blank one loses its space.
Trim(t) == IF t = " " THEN "" ELSE t
\* A socket id that no connection has used; seq is the connection's place in
\* the order of connections.
FreeSocket == [state |-> "free", user |-> NoUser, rooms |-> {}, seq |-> 0]
\* The typing Map with no key.
NoTyping == [r \in Rooms |-> [has |-> FALSE, users |-> {}]]
\* A chat or group whose lastMessage was never set.
NoLast == [text |-> "", sender |-> NoUser, sentAt |-> -1]

\* ====================================================================
\* ChatGroup: the model (models/ChatGroup) and the group controller
\* ====================================================================
Roles == {"admin", "member"}
Absent == [exists |-> FALSE]

\* ChatGroupSchema.statics.getDefaultSettings
DefaultSettings ==
    [sendMessages |-> "all_members", addMembers |-> "admins_only",
     removeMembers |-> "admins_only", isDiscoverable |-> TRUE]

\* { ...a, ...b } on settings objects: the fields of b win.
Spread(a, b) ==
    [k \in (DOMAIN a) \cup (DOMAIN b) |-> IF k \in DOMAIN b THEN b[k] ELSE a[k]]

Member(u, role, t) == [user |-> u, role |-> role, joinedAt |-> t, lastRead |-> t]

MemberIds(g) == [i \in 1..Len(g.members) |-> g.members[i].user]
\* ChatGroupSchema.methods.isMember
isMember(g, u) == \E i \in 1..Len(g.members) : g.members[i].user = u
\* ChatGroupSchema.methods.isAdmin
isAdmin(g, u) ==
    \E i \in 1..Len(g.members) : g.members[i].user = u /\ g.members[i].role = "admin"
\* members.findIndex(member => member.user === u); 0 stands for -1
MemberIndex(g, u) ==
    IF isMember(g, u)
    THEN CHOOSE i \in 1..Len(g.members) :
            /\ g.members[i].user = u
            /\ \A j \in 1..(i - 1) : g.members[j].user # u
    ELSE 0
AdminCount(g) == Cardinality({i \in 1..Len(g.members) : g.members[i].role = "admin"})

\* [...ms].sort((a, b) => a.joinedAt - b.joinedAt)[0]: the sort is stable, so
\* among the members with the earliest joinedAt the first of the array wins.
OldestIndex(ms) ==
    CHOOSE i \in 1..Len(ms) :
        \A j \in 1..Len(ms) :
            \/ ms[i].joinedAt < ms[j].joinedAt
            \/ (ms[i].joinedAt = ms[j].joinedAt /\ i <= j)

\* ChatGroup.findOne({ _id, 'members.user': u, isActive: true })
FindGroupOfMember(gid, u) ==
    /\ gid \in GroupIds
    /\ groups[gid].exists
    /\ groups[gid].isActive
    /\ isMember(groups[gid], u)

\* User.find({ _id: { $in: ids } }): the accounts among ids, each once, in the
\* collection's natural order.
FindUsers(ids) == SeqFilter(UserOrder, Range(ids))

Notif(recipient, type, sender, chatId, model, msg) ==
    [recipient |-> recipient, type |-> type, sender |-> sender,
     chat |-> chatId, model |-> model, message |-> msg, read |-> FALSE]

\* ChatGroupSchema.pre('save') for a new document: the creator is put first as
\* admin when absent, and is forced to admin when present.
PreSaveNew(g) ==
    IF ~isMember(g, g.creator)
    THEN [g EXCEPT !.members = <<Member(g.creator, "admin", clock)>> \o @]
    ELSE [g EXCEPT !.members[MemberIndex(g, g.creator)].role = "admin"]

\* ChatGroupSchema.name: maxlength.
NameMaxLength == 100
\* A name of 101 characters.
LongName ==
    "xxxxxxxxxxxxxxxxxxxxxxxxxxxxxxxxxxxxxxxxxxxxxxxxxxxxxxxxxxxxxxxxxxxxxxxxxxxxxxxxxxxxxxxxxxxxxxxxxxxxx"
\* Validation of ChatGroupSchema.name on save (required, trim, maxlength): the
\* trimmed name is not empty and has at most NameMaxLength characters.
ValidGroupName(name) == Trim(name) # "" /\ Len(Trim(name)) <= NameMaxLength

\* createGroup's document with the creator's own id not skipped among the
\* requested members.
NewGroupDocKeepCreator(creator, name, members, settings) ==
    LET others == FindUsers(members)
    IN  [exists |-> TRUE, name |-> Trim(name), description |-> "", creator |-> creator,
         members |-> <<Member(creator, "admin", clock)>>
                      \o [i \in 1..Len(others) |-> Member(others[i], "member", clock)],
         settings |-> Spread(DefaultSettings, settings),
         isActive |-> TRUE, lastMessage |-> NoLast]

\* groupController.createGroup, the document it builds (lines 42-97).
NewGroupDoc(creator, name, members, settings) ==
    LET others == SeqFilter(FindUsers(members), Users \ {creator})
    IN  [exists |-> TRUE, name |-> Trim(name), description |-> "", creator |-> creator,
         members |-> <<Member(creator, "admin", clock)>>
                      \o [i \in 1..Len(others) |-> Member(others[i], "member", clock)],
         settings |-> Spread(DefaultSettings, settings),
         isActive |-> TRUE, lastMessage |-> NoLast]

\* notification.save() for each of ns, in order.
SaveNotifs(ns) ==
    /\ Len(notifications) + Len(ns) <= MaxNotifs
    /\ notifications' = notifications \o ns

\* The TTL index on createdAt (30 days): the documents created so far expire.
ExpireNotifications ==
    /\ notifications # <<>>
    /\ notifications' = <<>>
    /\ UNCHANGED <<clock, groups, privateChats, messages, presence, activeUsers,
                   userSockets, sockets, typingUsers, tasks, lastOp>>

notGroupVars == <<clock, privateChats, messages, presence, activeUsers,
                  userSockets, sockets, typingUsers, tasks>>

\* The record of a completed group request.  A rejected request records only
\* its name: it changes no store, whoever sent it.
GroupOp(op, actor, gid, target, ok) ==
    IF ok THEN [op |-> op, actor |-> actor, group |-> gid, target |-> target, ok |-> TRUE]
    ELSE [op |-> op, actor |-> NoUser, group |-> NoGroup, target |-> NoUser, ok |-> FALSE]

\* POST /chat/group; gid is the _id that new ChatGroup() draws.  A missing
\* name is answered 400 (line 21); a name the schema refuses makes
\* group.save() throw, which is answered 500 (lines 100, 166-172): in both
\* cases nothing is stored.
CreateGroup(actor, gid, name, members, settings) ==
    IF name = "" \/ ~ValidGroupName(name)
    THEN /\ lastOp' = GroupOp("createGroup", actor, NoGroup, NoUser, FALSE)
         /\ UNCHANGED <<groups, notifications>>
    ELSE /\ ~groups[gid].exists
         /\ LET g == PreSaveNew(NewGroupDoc(actor, name, members, settings))
                to == SeqFilter(MemberIds(g), Users \ {actor})
            IN  /\ groups' = [groups EXCEPT ![gid] = g]
                /\ SaveNotifs([i \in 1..Len(to) |->
                       Notif(to[i], "added_to_group", actor, gid, "ChatGroup", NoMsg)])
         /\ lastOp' = GroupOp("createGroup", actor, gid, NoUser, TRUE)

\* The members array after removeMember's splice and its promotion branch
\* (lines 590-601): the promotion runs only when the removal is not a
\* self-removal.
MembersAfterRemove(ms, idx, isSelfRemoval) ==
    LET rest == RemoveAt(ms, idx)
        noAdmin == \A i \in 1..Len(rest) : rest[i].role # "admin"
    IN  IF ~isSelfRemoval /\ noAdmin /\ Len(rest) > 0
        THEN [rest EXCEPT ![OldestIndex(rest)].role = "admin"]
        ELSE rest

\* removeMember's checks without the test of the target's role.
RemoveMemberCheckAnyTarget(g, actor, target) ==
    IF target # actor /\ ~isAdmin(g, actor) THEN "not_admin"
    ELSE IF ~isMember(g, target) THEN "not_found"
    ELSE "ok"

\* removeMember's permission checks (lines 555-585): "ok" or the reason.
RemoveMemberCheck(g, actor, target) ==
    IF target # actor /\ ~isAdmin(g, actor) THEN "not_admin"
    ELSE IF target # actor /\ isAdmin(g, target) THEN "target_admin"
    ELSE IF ~isMember(g, target) THEN "not_found"
    ELSE "ok"

\* DELETE /chat/group/:groupId/members/:memberId
RemoveMember(actor, gid, target) ==
    IF ~FindGroupOfMember(gid, actor) \/ RemoveMemberCheck(groups[gid], actor, target) # "ok"
    THEN /\ lastOp' = GroupOp("removeMember", actor, gid, target, FALSE)
         /\ UNCHANGED <<groups, notifications>>
    ELSE LET g == groups[gid]
             self == (target = actor)
             ms == MembersAfterRemove(g.members, MemberIndex(g, target), self)
             toRemoved == IF self THEN <<>>
                          ELSE <<Notif(target, "group_removed", actor, gid, "ChatGroup", NoMsg)>>
         IN  /\ groups' = [groups EXCEPT ![gid] =
                    [g EXCEPT !.members = ms,
                              !.isActive = IF Len(ms) = 0 THEN FALSE ELSE @]]
             /\ SaveNotifs(toRemoved \o [i \in 1..Len(ms) |->
                    Notif(ms[i].user, "group_member_left", actor, gid, "ChatGroup", NoMsg)])
             /\ lastOp' = GroupOp("removeMember", actor, gid, target, TRUE)

\* addMembers' permission check passing for every member.
CanAddMembersAnyMember(g, actor) == TRUE
\* addMembers' permission check (lines 399-403).
CanAddMembers(g, actor) ==
    isAdmin(g, actor) \/ g.settings.addMembers = "all_members"

\* POST /chat/group/:groupId/members
AddMembers(actor, gid, members) ==
    LET g == groups[gid]
        newMemberIds == SeqFilter(members, (Users \cup {Ghost}) \ Range(MemberIds(g)))
        newMembers == FindUsers(newMemberIds)
        ms == g.members \o [i \in 1..Len(newMembers) |-> Member(newMembers[i], "member", clock)]
        existing == SeqFilter(MemberIds(g), Users \ ({actor} \cup Range(newMemberIds)))
    IN  IF \/ members = <<>>
           \/ ~FindGroupOfMember(gid, actor)
           \/ ~CanAddMembers(g, actor)
           \/ newMemberIds = <<>>
        THEN /\ lastOp' = GroupOp("addMembers", actor, gid, NoUser, FALSE)
             /\ UNCHANGED <<groups, notifications>>
        ELSE /\ groups' = [groups EXCEPT ![gid] = [g EXCEPT !.members = ms]]
             /\ SaveNotifs(
                    [i \in 1..Len(newMembers) |->
                        Notif(newMembers[i], "added_to_group", actor, gid, "ChatGroup", NoMsg)]
                    \o [i \in 1..Len(existing) |->
                        Notif(existing[i], "group_members_added", actor, gid, "ChatGroup", NoMsg)])
             /\ lastOp' = GroupOp("addMembers", actor, gid, NoUser, TRUE)

\* The roles a changeMemberRole request may carry: those of the schema and
\* one that is not a role.
RoleRequests == Roles \cup {"owner"}

\* changeMemberRole's checks with the actor's own role changeable.
ChangeRoleCheckOwnRole(g, actor, target, role) ==
    IF role \notin Roles THEN "bad_role"
    ELSE IF ~isAdmin(g, actor) THEN "not_admin"
    ELSE IF ~isMember(g, target) THEN "not_found"
    ELSE IF /\ g.members[MemberIndex(g, target)].role = "admin"
            /\ role = "member"
            /\ AdminCount(g) <= 1 THEN "last_admin"
    ELSE "ok"

\* changeMemberRole's checks (lines 684-756): "ok" or the reason.
ChangeRoleCheck(g, actor, target, role) ==
    IF role \notin Roles THEN "bad_role"
    ELSE IF ~isAdmin(g, actor) THEN "not_admin"
    ELSE IF target = actor THEN "own_role"
    ELSE IF ~isMember(g, target) THEN "not_found"
    ELSE IF /\ g.members[MemberIndex(g, target)].role = "admin"
            /\ role = "member"
            /\ AdminCount(g) <= 1 THEN "last_admin"
    ELSE "ok"

\* PUT /chat/group/:groupId/members/:memberId/role
ChangeMemberRole(actor, gid, target, role) ==
    IF ~FindGroupOfMember(gid, actor) \/ ChangeRoleCheck(groups[gid], actor, target, role) # "ok"
    THEN /\ lastOp' = GroupOp("changeMemberRole", actor, gid, target, FALSE)
         /\ UNCHANGED <<groups, notifications>>
    ELSE LET g == groups[gid]
         IN  /\ groups' = [groups EXCEPT ![gid] =
                    [g EXCEPT !.members[MemberIndex(g, target)].role = role]]
             /\ SaveNotifs(<<Notif(target, "group_role_changed", actor, gid, "ChatGroup", NoMsg)>>)
             /\ lastOp' = GroupOp("changeMemberRole", actor, gid, target, TRUE)

\* leaveGroup's promotion of a successor (lines 1045-1081): the members array
\* before the leaver is spliced out.
MembersAfterPromote(ms, actor) ==
    LET isUserAdmin == \E i \in 1..Len(ms) : ms[i].user = actor /\ ms[i].role = "admin"
        adminCount == Cardinality({i \in 1..Len(ms) : ms[i].role = "admin"})
        others == {i \in 1..Len(ms) : ms[i].user # actor}
    IN  IF isUserAdmin /\ adminCount = 1 /\ Len(ms) > 1 /\ others # {}
        THEN LET new == CHOOSE i \in others : \A j \in others :
                            \/ ms[i].joinedAt < ms[j].joinedAt
                            \/ (ms[i].joinedAt = ms[j].joinedAt /\ i <= j)
             IN  [ms EXCEPT ![new].role = "admin"]
        ELSE ms

\* POST /chat/group/:groupId/leave
LeaveGroup(actor, gid) ==
    IF ~FindGroupOfMember(gid, actor)
    THEN /\ lastOp' = GroupOp("leaveGroup", actor, gid, actor, FALSE)
         /\ UNCHANGED <<groups, notifications>>
    ELSE LET g == groups[gid]
             promoted == MembersAfterPromote(g.members, actor)
             newAdmins == {i \in 1..Len(promoted) : promoted[i].role # g.members[i].role}
             ms == RemoveAt(promoted, MemberIndex(g, actor))
             toPromoted == IF newAdmins = {} THEN <<>>
                           ELSE <<Notif(promoted[CHOOSE i \in newAdmins : TRUE].user,
                                        "admin_promotion", actor, gid, "ChatGroup", NoMsg)>>
         IN  /\ groups' = [groups EXCEPT ![gid] =
                    [g EXCEPT !.members = ms,
                              !.isActive = IF Len(ms) = 0 THEN FALSE ELSE @]]
             /\ SaveNotifs(toPromoted \o [i \in 1..Len(ms) |->
                    Notif(ms[i].user, "group_member_left", actor, gid, "ChatGroup", NoMsg)])
             /\ lastOp' = GroupOp("leaveGroup", actor, gid, actor, TRUE)

\* ChatGroupSchema.description: maxlength.
DescriptionMaxLength == 500
\* Validation of the document on group.save(): name, description and the enums
\* of the settings.
ValidGroupDoc(g) ==
    /\ g.name # "" /\ Len(g.name) <= NameMaxLength
    /\ Len(g.description) <= DescriptionMaxLength
    /\ g.settings.sendMessages \in {"all_members", "admins_only"}
    /\ g.settings.addMembers \in {"all_members", "admins_only"}
    /\ g.settings.removeMembers \in {"all_members", "admins_only"}
    /\ g.settings.isDiscoverable \in BOOLEAN

\* The settings a document keeps of an assigned object: the paths of the
\* schema.
SchemaSettings(st) == [k \in DOMAIN DefaultSettings |-> st[k]]

\* updateGroup's loop over the keys of the body with the settings replaced by
\* the patch, the fields it leaves out taking their defaults.
ApplyUpdatesReplacingSettings(g, updates) ==
    [g EXCEPT
        !.name = IF "name" \in DOMAIN updates THEN Trim(updates.name) ELSE @,
        !.description = IF "description" \in DOMAIN updates
                        THEN Trim(updates.description) ELSE @,
        !.settings = IF "settings" \in DOMAIN updates
                     THEN SchemaSettings(Spread(DefaultSettings, updates.settings)) ELSE @]

\* updateGroup's loop over the keys of the body (lines 295-309): name and
\* description are assigned (the schema trims them), the settings are merged
\* into the stored ones, every other key is skipped.
ApplyUpdates(g, updates) ==
    [g EXCEPT
        !.name = IF "name" \in DOMAIN updates THEN Trim(updates.name) ELSE @,
        !.description = IF "description" \in DOMAIN updates
                        THEN Trim(updates.description) ELSE @,
        !.settings = IF "settings" \in DOMAIN updates
                     THEN SchemaSettings(Spread(@, updates.settings)) ELSE @]

\* PUT /chat/group/:groupId.  An empty body is answered 400, a group the
\* actor is not a member of 404, a plain member 403; a document the schema
\* refuses makes group.save() throw (500) and nothing is stored.  A name in
\* the body notifies every other member.
UpdateGroup(actor, gid, updates) ==
    IF \/ DOMAIN updates = {}
       \/ ~FindGroupOfMember(gid, actor)
       \/ ~isAdmin(groups[gid], actor)
       \/ ~ValidGroupDoc(ApplyUpdates(groups[gid], updates))
    THEN /\ lastOp' = GroupOp("updateGroup", actor, gid, NoUser, FALSE)
         /\ UNCHANGED <<groups, notifications>>
    ELSE LET g == ApplyUpdates(groups[gid], updates)
             to == IF "name" \in DOMAIN updates /\ updates.name # ""
                   THEN SeqFilter(MemberIds(g), Users \ {actor}) ELSE <<>>
         IN  /\ groups' = [groups EXCEPT ![gid] = g]
             /\ SaveNotifs([i \in 1..Len(to) |->
                    Notif(to[i], "group_updated", actor, gid, "ChatGroup", NoMsg)])
             /\ lastOp' = GroupOp("updateGroup", actor, gid, NoUser, TRUE)

\* group.isVirtual as deleteGroup reads it: ChatGroupSchema declares no such
\* path, so the property of a loaded document is undefined.
isVirtual(g) == FALSE

\* deleteGroup's permission test with the membership test left out.
MayDeleteGroupAnyCreator(g, actor) ==
    isAdmin(g, actor) \/ g.creator = actor \/ isVirtual(g)

\* deleteGroup's tests on the loaded group (lines 927-951): the actor is a
\* member, and is an admin or the creator unless the group is virtual.
MayDeleteGroup(g, actor) ==
    /\ isMember(g, actor)
    /\ (isAdmin(g, actor) \/ g.creator = actor \/ isVirtual(g))

\* DELETE /chat/group/:groupId.  The group is loaded by id whatever its
\* isActive; the notifications carry no chat.
DeleteGroup(actor, gid) ==
    IF ~groups[gid].exists \/ ~MayDeleteGroup(groups[gid], actor)
    THEN /\ lastOp' = GroupOp("deleteGroup", actor, gid, NoUser, FALSE)
         /\ UNCHANGED <<groups, notifications>>
    ELSE LET to == SeqFilter(MemberIds(groups[gid]), Users \ {actor})
         IN  /\ groups' = [groups EXCEPT ![gid].isActive = FALSE]
             /\ SaveNotifs([i \in 1..Len(to) |->
                    Notif(to[i], "group_removed", actor, NoChat, "", NoMsg)])
             /\ lastOp' = GroupOp("deleteGroup", actor, gid, NoUser, TRUE)

\* ---------------------------------------------------------------- SpecGroup
\* The life of one group under the group controller, one request at a time.
\* The group controller never reads the ChatNotification collection, so a
\* request is taken here once the documents of the request before it have
\* expired: the collection then shows what the latest request created.
Ids == Users \cup {Ghost}
IdOrder == UserOrder \o <<Ghost>>
\* Requested member lists: every array of at most two ids, accounts or not,
\* repeated or not.  User.find returns the accounts in the collection's order
\* whatever the order of the request, so one order of each pair is enough.
MemberRequests ==
    {<<>>} \cup {<<a>> : a \in Ids}
    \cup {<<IdOrder[p[1]], IdOrder[p[2]]>> :
            p \in {q \in (1..Len(IdOrder)) \X (1..Len(IdOrder)) : q[1] <= q[2]}}
SettingsPatches == {<<>>, [addMembers |-> "all_members"]}
\* Bodies of POST /chat/group: one without a name, one with a blank name, one
\* with a name too long, and every one named "Team".
CreateRequests ==
    {[name |-> "", members |-> <<>>, settings |-> <<>>]}
    \cup {[name |-> n, members |-> <<"u2", "u3">>, settings |-> <<>>] : n \in {" ", LongName}}
    \cup {[name |-> "Team", members |-> m, settings |-> st] :
            m \in MemberRequests, st \in SettingsPatches}
\* The group's _id.  Before createGroup it names no document, so every
\* request below also runs against a group that is not found.
NewGroupIds == {1}

InitEmpty ==
    /\ clock = 0
    /\ groups = [g \in GroupIds |-> Absent]
    /\ privateChats = <<>>
    /\ messages = <<>>
    /\ notifications = <<>>
    /\ presence = [u \in Users |-> Absent]
    /\ activeUsers = [u \in Users |-> NoSocket]
    /\ userSockets = [s \in Sockets |-> NoUser]
    /\ sockets = [s \in Sockets |-> FreeSocket]
    /\ typingUsers = NoTyping
    /\ tasks = [s \in Sockets |-> [pc |-> "idle"]]
    /\ lastOp = NoOp

InitGroup == InitEmpty

GroupTick ==
    Tick /\ UNCHANGED <<groups, privateChats, messages, notifications, presence,
                        activeUsers, userSockets, sockets, typingUsers, tasks, lastOp>>
DoCreateGroup ==
    /\ notifications = <<>>
    /\ \E actor \in Users, gid \in NewGroupIds, req \in CreateRequests :
            CreateGroup(actor, gid, req.name, req.members, req.settings)
    /\ UNCHANGED notGroupVars
DoAddMembers ==
    /\ notifications = <<>>
    /\ \E actor \in Users, gid \in NewGroupIds, members \in MemberRequests :
            AddMembers(actor, gid, members)
    /\ UNCHANGED notGroupVars
DoRemoveMember ==
    /\ notifications = <<>>
    /\ \E actor \in Users, gid \in NewGroupIds, target \in Ids :
            RemoveMember(actor, gid, target)
    /\ UNCHANGED notGroupVars
DoChangeMemberRole ==
    /\ notifications = <<>>
    /\ \E actor \in Users, gid \in NewGroupIds, target \in Ids, role \in Roles :
            ChangeMemberRole(actor, gid, target, role)
    /\ UNCHANGED notGroupVars
DoLeaveGroup ==
    /\ notifications = <<>>
    /\ \E actor \in Users, gid \in NewGroupIds :
            LeaveGroup(actor, gid)
    /\ UNCHANGED notGroupVars

NextGroup ==
    \/ GroupTick
    \/ DoCreateGroup
    \/ DoAddMembers
    \/ DoRemoveMember
    \/ DoChangeMemberRole
    \/ DoLeaveGroup
    \/ ExpireNotifications

SpecGroup == InitGroup /\ [][NextGroup]_vars

\* ------------------------------------------------------ claims on SpecGroup
\* C2: after any sequence of createGroup, addMembers, removeMember,
\* changeMemberRole and leaveGroup calls, a group with at least one member has
\* exactly one member with role admin, and a group with no member is inactive.
C2_ExactlyOneAdmin ==
    \A gid \in GroupIds :
        groups[gid].exists =>
            /\ Len(groups[gid].members) >= 1 => AdminCount(groups[gid]) = 1
            /\ Len(groups[gid].members) = 0 => ~groups[gid].isActive

\* C3: in every reachable state an active group that has at least one member
\* has at least one member with role admin.
C3_AtLeastOneAdmin ==
    \A gid \in GroupIds :
        (groups[gid].exists /\ groups[gid].isActive /\ Len(groups[gid].members) >= 1)
            => AdminCount(groups[gid]) >= 1

\* ---------------------------------------------------------------- SpecCreate
\* No group exists.  Requests of POST /chat/group arrive, by any account, at
\* any time; the notifications of a request expire.
InitCreate == InitEmpty

NextCreate ==
    \/ GroupTick
    \/ DoCreateGroup
    \/ ExpireNotifications

SpecCreate == InitCreate /\ [][NextCreate]_vars

\* What C13 says of the stores after createGroup(actor, req) made group gid:
\* the group is active; its members are the creator, first, once and admin,
\* then each requested id that is an account and not the creator, once and with
\* role member; the notifications created are one added_to_group for each
\* of those members and none for the creator.
CreatedAsRequested(actor, gid, req, gs, before, after) ==
    LET g == gs[gid]
        others == (Range(req.members) \cap Users) \ {actor}
        new == SubSeq(after, Len(before) + 1, Len(after))
    IN  /\ g.exists /\ g.isActive
        /\ Len(g.members) = 1 + Cardinality(others)
        /\ g.members[1].user = actor /\ g.members[1].role = "admin"
        /\ {g.members[i].user : i \in 2..Len(g.members)} = others
        /\ \A i \in 2..Len(g.members) : g.members[i].role = "member"
        /\ Len(after) = Len(before) + Cardinality(others)
        /\ {new[i].recipient : i \in 1..Len(new)} = others
        /\ \A i \in 1..Len(new) :
                /\ new[i].type = "added_to_group"
                /\ new[i].chat = gid /\ new[i].model = "ChatGroup"

C14_SoleAdminSucceeded ==
    [][\A gid \in GroupIds :
        (/\ lastOp'.op \in {"removeMember", "leaveGroup"}
         /\ lastOp'.ok
         /\ lastOp'.group = gid
         /\ lastOp'.target = lastOp'.actor
         /\ groups[gid].exists
         /\ isAdmin(groups[gid], lastOp'.actor)
         /\ AdminCount(groups[gid]) = 1
         /\ Len(groups[gid].members) > 1)
            => LET ms == groups'[gid].members
               IN  /\ AdminCount(groups'[gid]) = 1
                   /\ \A i \in 1..Len(ms), j \in 1..Len(ms) :
                        ms[i].role = "admin" => ms[i].joinedAt <= ms[j].joinedAt]_vars

\* --------------------------------------------------------------- SpecMembers
\* Group 1 is stored with u1 (creator, admin), u2 and u3; group 2 does not
\* exist.  Requests of the group controller run one at a time, from every
\* account and naming every id.
InitMembers ==
    /\ clock = 0
    /\ groups = [g \in GroupIds |->
            IF g = 1 THEN PreSaveNew(NewGroupDoc("u1", "Team", <<"u2", "u3">>, <<>>))
            ELSE Absent]
    /\ privateChats = <<>>
    /\ messages = <<>>
    /\ notifications = <<>>
    /\ presence = [u \in Users |-> Absent]
    /\ activeUsers = [u \in Users |-> NoSocket]
    /\ userSockets = [s \in Sockets |-> NoUser]
    /\ sockets = [s \in Sockets |-> FreeSocket]
    /\ typingUsers = NoTyping
    /\ tasks = [s \in Sockets |-> [pc |-> "idle"]]
    /\ lastOp = NoOp

DoMembersRemove ==
    /\ notifications = <<>>
    /\ \E actor \in Users, gid \in GroupIds, target \in Ids :
            RemoveMember(actor, gid, target)
    /\ UNCHANGED notGroupVars
DoMembersChangeRole ==
    /\ notifications = <<>>
    /\ \E actor \in Users, gid \in GroupIds, target \in Ids, role \in RoleRequests :
            ChangeMemberRole(actor, gid, target, role)
    /\ UNCHANGED notGroupVars
DoMembersAdd ==
    /\ notifications = <<>>
    /\ \E actor \in Users, target \in Users :
            AddMembers(actor, 1, <<target>>)
    /\ UNCHANGED notGroupVars
NextMembers ==
    \/ DoMembersRemove
    \/ DoMembersChangeRole
    \/ DoMembersAdd
    \/ ExpireNotifications

SpecMembers == InitMembers /\ [][NextMembers]_vars

\* ---------------------------------------------------------------- SpecManage
\* The group of SpecMembers under updateGroup, deleteGroup and leaveGroup from
\* every account, while u1 and u2 change each other's role.
InitManage == InitMembers

DoManageLeave ==
    /\ notifications = <<>>
    /\ \E actor \in Users, gid \in GroupIds : LeaveGroup(actor, gid)
    /\ UNCHANGED notGroupVars
\* Bodies of updateGroup: none, a name, a blank name, a description, settings
\* of one field each, a setting outside its enum, and keys that are not
\* updatable.
UpdateRequests ==
    {<<>>,
     [name |-> "Crew"],
     [name |-> " "],
     [description |-> "about"],
     [settings |-> [sendMessages |-> "admins_only"]],
     [settings |-> [addMembers |-> "all_members"]],
     [settings |-> [sendMessages |-> "everyone"]],
     [isActive |-> FALSE, creator |-> "u2", members |-> <<>>],
     [name |-> "Crew", isActive |-> FALSE]}
DoManageUpdate ==
    /\ notifications = <<>>
    /\ \E actor \in Users, gid \in GroupIds, updates \in UpdateRequests :
            UpdateGroup(actor, gid, updates)
    /\ UNCHANGED notGroupVars
DoManageDelete ==
    /\ notifications = <<>>
    /\ \E actor \in Users, gid \in GroupIds : DeleteGroup(actor, gid)
    /\ UNCHANGED notGroupVars

DoManageChangeRole ==
    /\ notifications = <<>>
    /\ \E actor \in {"u1", "u2"}, target \in {"u1", "u2"}, role \in Roles :
            /\ actor # target
            /\ ChangeMemberRole(actor, 1, target, role)
    /\ UNCHANGED notGroupVars

NextManage ==
    \/ DoManageLeave
    \/ DoManageUpdate
    \/ DoManageDelete
    \/ DoManageChangeRole
    \/ ExpireNotifications

SpecManage == InitManage /\ [][NextManage]_vars

\* C28: updateGroup by an actor who is not an admin of the group is rejected
\* with the groups unchanged; any updateGroup leaves the other groups alone
\* and keeps the group's members with their roles, creator, isActive and
\* lastMessage, every settings field the body does not name, and the name
\* and description the body does not name.
C28_UpdateGroupFrame ==
    [][\A actor \in Users, gid \in GroupIds, updates \in UpdateRequests :
        (lastOp'.op = "updateGroup" /\ UpdateGroup(actor, gid, updates)) =>
            /\ ~(groups[gid].exists /\ isAdmin(groups[gid], actor))
                    => (~lastOp'.ok /\ groups' = groups)
            /\ \A other \in GroupIds \ {gid} : groups'[other] = groups[other]
            /\ groups[gid].exists =>
                LET a == groups[gid]
                    b == groups'[gid]
                IN  /\ b.exists
                    /\ b.members = a.members
                    /\ b.creator = a.creator
                    /\ b.isActive = a.isActive
                    /\ b.lastMessage = a.lastMessage
                    /\ DOMAIN b.settings = DOMAIN a.settings
                    /\ \A k \in DOMAIN a.settings :
                            ("settings" \notin DOMAIN updates \/ k \notin DOMAIN updates.settings)
                                => b.settings[k] = a.settings[k]
                    /\ "name" \notin DOMAIN updates => b.name = a.name
                    /\ "description" \notin DOMAIN updates => b.description = a.description]_vars

\* An admin's update has just been applied to a group whose name, description
\* and two settings differ from those it was created with.
C28_Witness ==
    /\ lastOp.op = "updateGroup" /\ lastOp.ok
    /\ groups[1].name = "Crew"
    /\ groups[1].description = "about"
    /\ groups[1].settings.sendMessages = "admins_only"
    /\ groups[1].settings.addMembers = "all_members"

\* What a successful deleteGroup does: isActive becomes false, everything
\* else of the groups stays, and each member other than the actor gets one
\* notification.
DeletedOnly(actor, gid) ==
    /\ groups' = [groups EXCEPT ![gid].isActive = FALSE]
    /\ Len(notifications') = Len(notifications) + Len(groups[gid].members)
                              - (IF isMember(groups[gid], actor) THEN 1 ELSE 0)
    /\ SubSeq(notifications', 1, Len(notifications)) = notifications
    /\ \A u \in Users \ {actor} :
            isMember(groups[gid], u) =>
                Cardinality({i \in (Len(notifications) + 1)..Len(notifications') :
                                notifications'[i].recipient = u}) = 1

\* C29 as stated: deleteGroup on an existing group succeeds exactly when the
\* actor is an admin of it, or its creator, or the group is virtual, and then
\* only sets isActive to false and notifies each other member once.
C29_DeleteGroupAdminOrCreator ==
    [][\A actor \in Users, gid \in GroupIds :
        (/\ lastOp'.op = "deleteGroup"
         /\ groups[gid].exists
         /\ DeleteGroup(actor, gid)) =>
            /\ lastOp'.ok <=> (\/ isAdmin(groups[gid], actor)
                               \/ groups[gid].creator = actor
                               \/ isVirtual(groups[gid]))
            /\ lastOp'.ok => DeletedOnly(actor, gid)
            /\ ~lastOp'.ok => (groups' = groups /\ notifications' = notifications)]_vars

\* C29, amended: deleteGroup on an existing group succeeds exactly when the
\* actor is a member of it and is an admin or its creator (or the group is
\* virtual), and then only sets isActive to false and notifies each other
\* member once.
C29_DeleteGroupMemberAdminOrCreator ==
    [][\A actor \in Users, gid \in GroupIds :
        (/\ lastOp'.op = "deleteGroup"
         /\ groups[gid].exists
         /\ DeleteGroup(actor, gid)) =>
            /\ lastOp'.ok <=> (/\ isMember(groups[gid], actor)
                               /\ \/ isAdmin(groups[gid], actor)
                                  \/ groups[gid].creator = actor
                                  \/ isVirtual(groups[gid]))
            /\ lastOp'.ok => DeletedOnly(actor, gid)
            /\ ~lastOp'.ok => (groups' = groups /\ notifications' = notifications)]_vars

\* The creator, demoted to a plain member, has deleted the group, and the two
\* other members hold one notification each.
C29_Witness ==
    /\ lastOp.op = "deleteGroup" /\ lastOp.ok
    /\ lastOp.actor = groups[lastOp.group].creator
    /\ ~isAdmin(groups[lastOp.group], lastOp.actor)
    /\ ~groups[lastOp.group].isActive
    /\ Len(groups[lastOp.group].members) = 3
    /\ Len(notifications) = 2
    /\ notifications[1].recipient # notifications[2].recipient

\* C39: a step taken when a group is stored inactive leaves that group's
\* document as it is, and, when it is the only group stored, creates no
\* notification.
C39_InactiveGroupIsFrozen ==
    [][\A gid \in GroupIds :
        (groups[gid].exists /\ ~groups[gid].isActive) =>
            /\ groups'[gid] = groups[gid]
            /\ (\A h \in GroupIds \ {gid} : ~groups[h].exists)
                    => Len(notifications') <= Len(notifications)]_vars

MayChangeRole(g, actor, target, role) ==
    /\ g.exists /\ g.isActive
    /\ isAdmin(g, actor)
    /\ target # actor
    /\ isMember(g, target)
    /\ role \in Roles
    /\ ~(/\ g.members[MemberIndex(g, target)].role = "admin"
         /\ role = "member"
         /\ AdminCount(g) = 1)

\* C22: changeMemberRole succeeds exactly when the actor is an admin of the
\* active group, the target is another member and the change does not demote
\* the only admin; then the target has the role and one group_role_changed
\* notification for the target is created; otherwise groups and
\* notifications are unchanged.
C22_ChangeRolePermission ==
    [][\A actor \in Users, gid \in GroupIds, target \in Ids, role \in RoleRequests :
        (lastOp'.op = "changeMemberRole" /\ ChangeMemberRole(actor, gid, target, role)) =>
            /\ lastOp'.ok <=> MayChangeRole(groups[gid], actor, target, role)
            /\ ~lastOp'.ok => (groups' = groups /\ notifications' = notifications)
            /\ lastOp'.ok =>
                /\ groups' = [groups EXCEPT
                        ![gid].members[MemberIndex(groups[gid], target)].role = role]
                /\ Len(notifications') = Len(notifications) + 1
                /\ notifications'[Len(notifications')].recipient = target
                /\ notifications'[Len(notifications')].type = "group_role_changed"
                /\ SubSeq(notifications', 1, Len(notifications)) = notifications]_vars

\* An admin has made another member an admin, and that member holds the one
\* notification of it.
C22_Witness ==
    /\ lastOp.op = "changeMemberRole" /\ lastOp.ok
    /\ isAdmin(groups[lastOp.group], lastOp.target)
    /\ Len(notifications) = 1
    /\ notifications[1].recipient = lastOp.target
    /\ notifications[1].type = "group_role_changed"

\* C30: every ChatNotification has a recipient other than the actor of the
\* operation that created it (its sender).
C30_RecipientIsNotActor ==
    \A i \in 1..Len(notifications) :
        notifications[i].recipient # notifications[i].sender

\* ------------------------------------------------------------------- SpecAdd
\* Group 1 is stored with u1 (creator, admin) and u2, under either value of
\* its addMembers setting; group 2 does not exist.  addMembers requests come
\* from every account with every requested list, and u1 removes members.
InitAdd ==
    /\ clock = 0
    /\ \E settings \in SettingsPatches :
            groups = [g \in GroupIds |->
                IF g = 1 THEN PreSaveNew(NewGroupDoc("u1", "Team", <<"u2">>, settings))
                ELSE Absent]
    /\ privateChats = <<>>
    /\ messages = <<>>
    /\ notifications = <<>>
    /\ presence = [u \in Users |-> Absent]
    /\ activeUsers = [u \in Users |-> NoSocket]
    /\ userSockets = [s \in Sockets |-> NoUser]
    /\ sockets = [s \in Sockets |-> FreeSocket]
    /\ typingUsers = NoTyping
    /\ tasks = [s \in Sockets |-> [pc |-> "idle"]]
    /\ lastOp = NoOp

DoAddAddMembers ==
    /\ notifications = <<>>
    /\ \E actor \in Users, gid \in GroupIds, members \in MemberRequests :
            AddMembers(actor, gid, members)
    /\ UNCHANGED notGroupVars
DoAddRemoveMember ==
    /\ notifications = <<>>
    /\ \E target \in Users : RemoveMember("u1", 1, target)
    /\ UNCHANGED notGroupVars

NextAdd ==
    \/ DoAddAddMembers
    \/ DoAddRemoveMember
    \/ ExpireNotifications

SpecAdd == InitAdd /\ [][NextAdd]_vars

\* C31: addMembers changes no group unless the actor is an admin of the
\* group or its addMembers setting is all_members; a successful call keeps
\* the members it found, in place and with their roles, and appends once
\* each requested identity that has an account and was not a member, with
\* role member; nothing else of the groups changes.
C31_AddMembersEffect ==
    [][\A actor \in Users, gid \in GroupIds, members \in MemberRequests :
        (lastOp'.op = "addMembers" /\ AddMembers(actor, gid, members)) =>
            /\ ~(/\ groups[gid].exists
                 /\ \/ isAdmin(groups[gid], actor)
                    \/ groups[gid].settings.addMembers = "all_members")
                    => (~lastOp'.ok /\ groups' = groups)
            /\ ~lastOp'.ok => groups' = groups
            /\ lastOp'.ok =>
                LET old == groups[gid].members
                    new == groups'[gid].members
                    added == SubSeq(new, Len(old) + 1, Len(new))
                IN  /\ Len(new) >= Len(old)
                    /\ SubSeq(new, 1, Len(old)) = old
                    /\ {added[i].user : i \in 1..Len(added)}
                            = (Range(members) \cap Users) \ Range(MemberIds(groups[gid]))
                    /\ Len(added) = Cardinality({added[i].user : i \in 1..Len(added)})
                    /\ \A i \in 1..Len(added) : added[i].role = "member"
                    /\ groups' = [groups EXCEPT ![gid].members = new]]_vars

\* A plain member has just added an account to a group whose setting lets
\* every member add.
C31_Witness ==
    /\ lastOp.op = "addMembers" /\ lastOp.ok
    /\ ~isAdmin(groups[lastOp.group], lastOp.actor)
    /\ groups[lastOp.group].settings.addMembers = "all_members"
    /\ Len(groups[lastOp.group].members) = 3

\* ------------------------------------------------------------------ SpecHook
\* ChatGroupSchema.pre('save') on a document with isNew as given (lines
\* 241-287): only a new document is touched.
PreSave(g, isNew) == IF isNew THEN PreSaveNew(g) ELSE g

\* The members arrays a document is saved with: up to MaxHookMembers
\* entries of any account and role.
MaxHookMembers == 3
HookMembers == {Member(u, role, 0) : u \in Users, role \in Roles}
HookMemberLists ==
    UNION {[1..n -> HookMembers] : n \in 0..MaxHookMembers}
SaveOp(isNew, given) == [op |-> "save", isNew |-> isNew, given |-> given]

InitHook == InitEmpty

\* new ChatGroup({ creator, members, ... }).save()
DoHookFirstSave ==
    /\ ~groups[1].exists
    /\ \E creator \in Users, members \in HookMemberLists :
            /\ groups' = [groups EXCEPT ![1] =
                    PreSave([NewGroupDoc(creator, "Team", <<>>, <<>>)
                                EXCEPT !.members = members], TRUE)]
            /\ lastOp' = SaveOp(TRUE, members)
    /\ UNCHANGED <<clock, privateChats, messages, notifications, presence, activeUsers,
                   userSockets, sockets, typingUsers, tasks>>
\* A stored group is loaded, the role of one of its members is assigned and
\* the document is saved.
DoHookLaterSave ==
    /\ groups[1].exists
    /\ \E i \in 1..Len(groups[1].members), role \in Roles :
            LET g == [groups[1] EXCEPT !.members[i].role = role]
            IN  /\ groups' = [groups EXCEPT ![1] = PreSave(g, FALSE)]
                /\ lastOp' = SaveOp(FALSE, g.members)
    /\ UNCHANGED <<clock, privateChats, messages, notifications, presence, activeUsers,
                   userSockets, sockets, typingUsers, tasks>>

NextHook ==
    \/ DoHookFirstSave
    \/ DoHookLaterSave

SpecHook == InitHook /\ [][NextHook]_vars

NewPrivateChat(a, b) ==
    [participants |-> <<a, b>>,
     participantStatus |-> <<[user |-> a, lastRead |-> clock, isBlocked |-> FALSE],
                             [user |-> b, lastRead |-> clock, isBlocked |-> FALSE]>>,
     isActive |-> TRUE,
     lastMessage |-> NoLast]

\* PrivateChat.findOne({ participants: { $all: [a, b] }, isActive: true }):
\* the first matching document, or null.
FindChatByAll(ps) ==
    LET hits == {i \in 1..Len(privateChats) :
                    /\ ps \subseteq Range(privateChats[i].participants)
                    /\ privateChats[i].isActive}
    IN  IF hits = {} THEN NoChat ELSE CHOOSE i \in hits : \A j \in hits : i <= j
FindChatByPair(a, b) == FindChatByAll({a, b})

\* participantStatus.find(status => status.user === u): its index, 0 for none.
StatusIndex(chat, u) ==
    IF \E i \in 1..Len(chat.participantStatus) : chat.participantStatus[i].user = u
    THEN CHOOSE i \in 1..Len(chat.participantStatus) :
            /\ chat.participantStatus[i].user = u
            /\ \A j \in 1..(i - 1) : chat.participantStatus[j].user # u
    ELSE 0

Idle == [pc |-> "idle"]
\* A socket's rooms after a join that leaves no room behind.
RoomsAfterJoinKeeping(rooms, roomId) == rooms \cup {roomId}
\* A socket's rooms after private:join or group:join enters roomId: the rooms
\* of the same prefix are left first (lines 533-537, 719-724).
RoomsAfterJoin(rooms, roomId) == {r \in rooms : r.kind # roomId.kind} \cup {roomId}
notJoinVars == <<groups, messages, notifications, presence, activeUsers,
                 userSockets, typingUsers>>

\* private:join, up to the first await (lines 525-540): the socket leaves its
\* private rooms, joins the pair's room and issues the lookup.
JoinPrivateStart(s, peer) ==
    /\ sockets[s].state = "open"
    /\ tasks[s] = Idle
    /\ sockets' = [sockets EXCEPT ![s].rooms =
            RoomsAfterJoin(@, PrivateRoom(sockets[s].user, peer))]
    /\ tasks' = [tasks EXCEPT ![s] = [pc |-> "join_find", peer |-> peer, chat |-> NoChat]]
    /\ UNCHANGED <<clock, privateChats, lastOp>>

\* The lookup runs in the database (lines 540-545).
JoinPrivateFind(s) ==
    /\ tasks[s].pc = "join_find"
    /\ LET found == FindChatByPair(sockets[s].user, tasks[s].peer)
       IN  tasks' = [tasks EXCEPT ![s].chat = found,
                                  ![s].pc = IF found = NoChat THEN "join_create"
                                            ELSE "join_stamp"]
    /\ UNCHANGED <<clock, privateChats, sockets, lastOp>>

\* No chat was found: a new document is inserted (lines 545-556).
JoinPrivateCreate(s) ==
    /\ tasks[s].pc = "join_create"
    /\ Len(privateChats) < MaxChats
    /\ privateChats' = Append(privateChats, NewPrivateChat(sockets[s].user, tasks[s].peer))
    /\ tasks' = [tasks EXCEPT ![s].chat = Len(privateChats) + 1, ![s].pc = "join_stamp"]
    /\ UNCHANGED <<clock, sockets, lastOp>>

\* The caller's lastRead is stamped and saved, and private:joined is emitted
\* (lines 558-571).
JoinPrivateStamp(s) ==
    /\ tasks[s].pc = "join_stamp"
    /\ LET c == tasks[s].chat
           i == StatusIndex(privateChats[c], sockets[s].user)
       IN  /\ privateChats' =
                IF i = 0 THEN privateChats
                ELSE [privateChats EXCEPT ![c].participantStatus[i].lastRead = clock]
           /\ lastOp' = [op |-> "private:join", actor |-> sockets[s].user,
                         target |-> tasks[s].peer, chat |-> c, ok |-> TRUE]
    /\ tasks' = [tasks EXCEPT ![s] = Idle]
    /\ UNCHANGED <<clock, sockets>>

\* ------------------------------------------------------------------ SpecJoin
\* Sockets s1 of u1 and s2 of u2 are connected, s3 is not; each connected
\* socket runs private:join handlers, which interleave at their awaits.
SocketUser == [s \in Sockets |-> IF s = "s1" THEN "u1" ELSE IF s = "s2" THEN "u2" ELSE NoUser]
InitJoin ==
    /\ clock = 0
    /\ groups = [g \in GroupIds |-> Absent]
    /\ privateChats = <<>>
    /\ messages = <<>>
    /\ notifications = <<>>
    /\ presence = [u \in Users |-> Absent]
    /\ activeUsers = [u \in Users |->
            IF u = "u1" THEN "s1" ELSE IF u = "u2" THEN "s2" ELSE NoSocket]
    /\ userSockets = SocketUser
    /\ sockets = [s \in Sockets |->
            IF SocketUser[s] = NoUser
            THEN FreeSocket
            ELSE [state |-> "open", user |-> SocketUser[s], rooms |-> {}, seq |-> UserRank(SocketUser[s])]]
    /\ typingUsers = NoTyping
    /\ tasks = [s \in Sockets |-> Idle]
    /\ lastOp = NoOp

JoinTick ==
    Tick /\ UNCHANGED <<groups, privateChats, messages, notifications, presence,
                        activeUsers, userSockets, sockets, typingUsers, tasks, lastOp>>
DoJoinPrivateStart ==
    \E s \in Sockets, peer \in Users :
        peer # sockets[s].user /\ JoinPrivateStart(s, peer) /\ UNCHANGED notJoinVars
DoJoinPrivateFind == \E s \in Sockets : JoinPrivateFind(s) /\ UNCHANGED notJoinVars
DoJoinPrivateCreate == \E s \in Sockets : JoinPrivateCreate(s) /\ UNCHANGED notJoinVars
DoJoinPrivateStamp == \E s \in Sockets : JoinPrivateStamp(s) /\ UNCHANGED notJoinVars

NextJoin ==
    \/ JoinTick
    \/ DoJoinPrivateStart
    \/ DoJoinPrivateFind
    \/ DoJoinPrivateCreate
    \/ DoJoinPrivateStamp

SpecJoin == InitJoin /\ [][NextJoin]_vars

\* C1: when the private:join handlers of both sides of a pair have run, in
\* any interleaving of their lookup and create steps, at most one active
\* PrivateChat exists for the pair.
C1_OneChatPerPair ==
    (\A s \in Sockets : tasks[s] = Idle) =>
        \A i, j \in 1..Len(privateChats) :
            (/\ i # j
             /\ privateChats[i].isActive
             /\ privateChats[j].isActive)
                => Range(privateChats[i].participants) # Range(privateChats[j].participants)

\* ====================================================================
\* The socket router's group:join, and the rooms of a connection
\* ====================================================================
\* ChatGroup.findOne({ _id: groupId, 'members.user': userId, isActive: true })
\* of group:join with the membership condition left out of the query.
GroupJoinLookupById(gid, u) == gid \in GroupIds /\ groups[gid].exists
\* ChatGroup.findOne({ _id: groupId, 'members.user': userId, isActive: true })
\* of group:join (lines 705-709).
GroupJoinLookup(gid, u) == FindGroupOfMember(gid, u)

\* The record of a join event that ended: reply is what the handler emitted
\* to the socket, the joined event or an error.
JoinOp(op, s, target, ok) ==
    [op |-> op, actor |-> sockets[s].user, socket |-> s, target |-> target, ok |-> ok,
     reply |-> IF ok THEN "joined" ELSE "error"]

\* group:join, up to the await (lines 700-709): without a groupId the handler
\* returns; otherwise the lookup is issued.
GroupJoinStart(s, gid) ==
    /\ sockets[s].state = "open"
    /\ tasks[s] = Idle
    /\ IF gid = NoGroup
       THEN /\ lastOp' = [JoinOp("group:join", s, gid, FALSE) EXCEPT !.reply = "none"]
            /\ UNCHANGED tasks
       ELSE /\ tasks' = [tasks EXCEPT ![s] =
                    [pc |-> "gjoin_find", group |-> gid, idx |-> 0, at |-> 0]]
            /\ UNCHANGED lastOp
    /\ UNCHANGED <<clock, groups, sockets>>
\* The lookup returns (lines 711-734).  No group: an error is emitted.
\* Otherwise the socket leaves its group rooms and joins the group's room, and
\* when the caller is found among the members their lastRead is set on the
\* loaded document and group.save() is issued.
GroupJoinFind(s) ==
    /\ tasks[s].pc = "gjoin_find"
    /\ LET gid == tasks[s].group
           u == sockets[s].user
       IN  IF ~GroupJoinLookup(gid, u)
           THEN /\ tasks' = [tasks EXCEPT ![s] = Idle]
                /\ lastOp' = JoinOp("group:join", s, gid, FALSE)
                /\ UNCHANGED sockets
           ELSE /\ sockets' = [sockets EXCEPT ![s].rooms = RoomsAfterJoin(@, GroupRoom(gid))]
                /\ tasks' = [tasks EXCEPT ![s].pc = "gjoin_save",
                                          ![s].idx = MemberIndex(groups[gid], u),
                                          ![s].at = clock]
                /\ UNCHANGED lastOp
    /\ UNCHANGED <<clock, groups>>
\* group.save() lands (line 733) and group:joined and group:userJoined are
\* emitted (lines 737-747).
GroupJoinSave(s) ==
    /\ tasks[s].pc = "gjoin_save"
    /\ LET gid == tasks[s].group
           i == tasks[s].idx
       IN  groups' = IF i = 0 \/ i > Len(groups[gid].members) THEN groups
                     ELSE [groups EXCEPT ![gid].members[i].lastRead = tasks[s].at]
    /\ tasks' = [tasks EXCEPT ![s] = Idle]
    /\ lastOp' = JoinOp("group:join", s, tasks[s].group, TRUE)
    /\ UNCHANGED <<clock, sockets>>
\* A store call of a join handler fails: the handler's catch emits an error
\* (lines 572-575, 748-751) and the handler ends.
JoinStoreFails(s) ==
    /\ tasks[s].pc \in {"join_find", "join_create", "join_stamp", "gjoin_find", "gjoin_save"}
    /\ lastOp' = JoinOp(IF tasks[s].pc \in {"gjoin_find", "gjoin_save"}
                        THEN "group:join" ELSE "private:join",
                        s, IF tasks[s].pc \in {"gjoin_find", "gjoin_save"}
                           THEN tasks[s].group ELSE tasks[s].peer, FALSE)
    /\ tasks' = [tasks EXCEPT ![s] = Idle]
    /\ UNCHANGED <<clock, groups, privateChats, sockets>>

\* ----------------------------------------------------------------- SpecRooms
\* Sockets s1 of u1 and s2 of u2 are connected.  Groups 1 and 2 have u1
\* (admin) and u2.  Socket s2 sends private:join and group:join events, whose
\* store calls may fail; between the handlers' steps u2 leaves groups.
InitRooms ==
    /\ clock = 0
    /\ groups = [g \in GroupIds |->
            PreSaveNew(NewGroupDoc("u1", "Team", <<"u2">>, <<>>))]
    /\ privateChats = <<>>
    /\ messages = <<>>
    /\ notifications = <<>>
    /\ presence = [u \in Users |-> Absent]
    /\ activeUsers = [u \in Users |->
            IF u = "u1" THEN "s1" ELSE IF u = "u2" THEN "s2" ELSE NoSocket]
    /\ userSockets = SocketUser
    /\ sockets = [s \in Sockets |->
            IF SocketUser[s] = NoUser
            THEN FreeSocket
            ELSE [state |-> "open", user |-> SocketUser[s], rooms |-> {},
                  seq |-> UserRank(SocketUser[s])]]
    /\ typingUsers = NoTyping
    /\ tasks = [s \in Sockets |-> Idle]
    /\ lastOp = NoOp

notRoomsVars == <<messages, notifications, presence, activeUsers, userSockets, typingUsers>>
RoomsSockets == {"s2"}
DoRoomsJoinPrivateStart ==
    \E s \in RoomsSockets, peer \in Users :
        peer # sockets[s].user /\ JoinPrivateStart(s, peer) /\ UNCHANGED notJoinVars
DoGroupJoinStart ==
    \E s \in RoomsSockets, gid \in GroupIds \cup {NoGroup} :
        GroupJoinStart(s, gid) /\ UNCHANGED <<privateChats, notRoomsVars>>
DoGroupJoinFind ==
    \E s \in Sockets : GroupJoinFind(s) /\ UNCHANGED <<privateChats, notRoomsVars>>
DoGroupJoinSave ==
    \E s \in Sockets : GroupJoinSave(s) /\ UNCHANGED <<privateChats, notRoomsVars>>
DoJoinStoreFails ==
    \E s \in Sockets : JoinStoreFails(s) /\ UNCHANGED notRoomsVars
DoRoomsLeaveGroup ==
    /\ \E gid \in GroupIds :
            FindGroupOfMember(gid, "u2") /\ LeaveGroup("u2", gid)
    /\ UNCHANGED notGroupVars

NextRooms ==
    \/ DoRoomsJoinPrivateStart
    \/ DoJoinPrivateFind
    \/ DoJoinPrivateCreate
    \/ DoJoinPrivateStamp
    \/ DoGroupJoinStart
    \/ DoGroupJoinFind
    \/ DoGroupJoinSave
    \/ DoJoinStoreFails
    \/ DoRoomsLeaveGroup

SpecRooms == InitRooms /\ [][NextRooms]_vars

\* C19: a connection enters room group:G only in a step whose lookup finds
\* G active with the caller among its members; when the lookup of a
\* group:join does not, the handler ends with an error and the connection's
\* rooms are as they were.
C19_GroupJoinMembersOnly ==
    [][\A s \in Sockets :
        /\ \A gid \in GroupIds :
                (GroupRoom(gid) \notin sockets[s].rooms /\ GroupRoom(gid) \in sockets'[s].rooms)
                    => /\ groups[gid].exists /\ groups[gid].isActive
                       /\ isMember(groups[gid], sockets[s].user)
        /\ (/\ tasks[s].pc = "gjoin_find"
            /\ tasks'[s] # tasks[s]
            /\ ~(/\ groups[tasks[s].group].exists /\ groups[tasks[s].group].isActive
                 /\ isMember(groups[tasks[s].group], sockets[s].user)))
                => /\ sockets'[s].rooms = sockets[s].rooms
                   /\ tasks'[s] = Idle
                   /\ lastOp'.op = "group:join" /\ ~lastOp'.ok]_vars

\* A connection sits in a group's room, having joined while a member, and a
\* group:join of a group the caller is not an active member of has just been
\* refused.
C19_Witness ==
    /\ lastOp.op = "group:join" /\ ~lastOp.ok
    /\ lastOp.target \in GroupIds
    /\ ~FindGroupOfMember(lastOp.target, lastOp.actor)
    /\ \E s \in Sockets, gid \in GroupIds :
            sockets[s].state = "open" /\ GroupRoom(gid) \in sockets[s].rooms

\* C23: a join event that ends without joining (a missing field, a caller who
\* is not a member, a group that is not found) has emitted an error to its
\* socket, has changed no store, and leaves the socket open.
C23_RefusedEventGetsError ==
    [][(/\ lastOp' # lastOp
        /\ lastOp'.op \in {"private:join", "group:join"}
        /\ ~lastOp'.ok)
            => /\ lastOp'.reply = "error"
               /\ groups' = groups
               /\ privateChats' = privateChats
               /\ messages' = messages
               /\ notifications' = notifications
               /\ presence' = presence
               /\ sockets'[lastOp'.socket].state = "open"]_vars

\* C20: in every reachable state each connection is in at most one private
\* room and at most one group room.
C20_OneRoomPerKind ==
    \A s \in Sockets :
        /\ Cardinality({r \in sockets[s].rooms : r.kind = "private"}) <= 1
        /\ Cardinality({r \in sockets[s].rooms : r.kind = "group"}) <= 1

\* A connection is in a private room and in a group room, has joined another
\* room of each kind before, and a join's store call has just failed.
C20_Witness ==
    /\ lastOp.op \in {"private:join", "group:join"} /\ ~lastOp.ok
    /\ \E s \in Sockets :
            /\ Cardinality(sockets[s].rooms) = 2
            /\ tasks[s].pc \in {"join_find", "gjoin_save"}

\* C36: every connection joined to the room of a group belongs to an account
\* that is a member of that group, and the group is active.
C36_RoomHoldsMembersOnly ==
    \A s \in Sockets, gid \in GroupIds :
        GroupRoom(gid) \in sockets[s].rooms =>
            /\ groups[gid].exists
            /\ groups[gid].isActive
            /\ isMember(groups[gid], sockets[s].user)

\* ====================================================================
\* Message: the send paths (HTTP sendMessage behind its middleware, the
\* socket router's private:message and group:message) and deleteMessage
\* ====================================================================
\* Message texts: empty, blank, and a word.
Texts == {"", " ", "hi"}
\* An attachment as a client posts it: the stored fields and a client-side one.
ClientAttachment ==
    [type |-> "image", url |-> "http://files/a.png", name |-> "a.png",
     size |-> 10, uri |-> "file:///a.png"]
AttachmentLists == {<<>>, <<ClientAttachment>>}

\* messageMiddleware.normalizeAttachmentUrls: uri, uploading and progress are
\* dropped from every attachment.
normalizeAttachmentUrls(attachments) ==
    [i \in 1..Len(attachments) |->
        [k \in (DOMAIN attachments[i]) \ {"uri", "uploading", "progress"} |->
            attachments[i][k]]]
\* messageMiddleware.validateMessageContent: TRUE when next() is called.
validateMessageContent(text, attachments) ==
    LET hasText == text # "" /\ Trim(text) # ""
        hasAttachments == Len(attachments) > 0
    IN  hasText \/ hasAttachments
\* attachments.map(att => ({ type, url, name, size }))
StoredAttachments(attachments) ==
    [i \in 1..Len(attachments) |->
        [type |-> attachments[i].type, url |-> attachments[i].url,
         name |-> attachments[i].name, size |-> attachments[i].size]]

\* PrivateChat.methods.isBlocked(userId): the participant userId has set the
\* block flag of their status record.
isBlocked(chat, u) ==
    \E i \in 1..Len(chat.participantStatus) :
        chat.participantStatus[i].user = u /\ chat.participantStatus[i].isBlocked

\* PrivateChat.findOne({ _id: chatId, participants: u, isActive: true })
FindChatOfParticipant(chatId, u) ==
    /\ chatId \in 1..Len(privateChats)
    /\ u \in Range(privateChats[chatId].participants)
    /\ privateChats[chatId].isActive
\* chat.participants.find(id => id !== u); NoUser stands for undefined
OtherParticipant(chat, u) ==
    LET others == SeqFilter(chat.participants, Range(chat.participants) \ {u})
    IN  IF others = <<>> THEN NoUser ELSE others[1]
\* The permission test passing for every member.
CanSendMessagesAnyMember(g, u) == isMember(g, u)
\* userMember.role === 'admin' || group.settings.sendMessages === 'all_members'
CanSendMessages(g, u) ==
    g.members[MemberIndex(g, u)].role = "admin" \/ g.settings.sendMessages = "all_members"

\* new Message({...}) as both paths build it; readBy holds the readers in order.
NewMessage(sender, recipient, group, text, chatType, participants, attachments) ==
    [exists |-> TRUE, sender |-> sender, recipient |-> recipient, group |-> group,
     text |-> text, chatType |-> chatType, participants |-> participants,
     attachments |-> StoredAttachments(attachments),
     readBy |-> <<sender>>, createdAt |-> clock]
\* { text, sender, sentAt: new Date() }
LastMessage(text, sender, sentAt) == [text |-> text, sender |-> sender, sentAt |-> sentAt]

\* The persistent stores, and the outcome of a request that changed none.
Stores ==
    [messages |-> messages, privateChats |-> privateChats, groups |-> groups,
     notifications |-> notifications]
Rejected(reason) == [reason |-> reason, stores |-> Stores]

\* sendMessage's checks, in the order the middleware and the controller make
\* them (messageMiddleware 41-58, messageController 45-113, 181-205).
SendMessageCheck(u, chatId, chatType, text, attachments) ==
    IF ~validateMessageContent(text, attachments) THEN "no_content"
    ELSE IF text = "" /\ Len(attachments) = 0 THEN "no_content"
    ELSE IF chatType = "private"
         THEN IF ~FindChatOfParticipant(chatId, u) THEN "not_found"
              ELSE IF OtherParticipant(privateChats[chatId], u) = NoUser THEN "no_recipient"
              ELSE IF isBlocked(privateChats[chatId], OtherParticipant(privateChats[chatId], u))
                   THEN "blocked"
              ELSE "ok"
         ELSE IF ~FindGroupOfMember(chatId, u) THEN "not_found"
              ELSE IF ~CanSendMessages(groups[chatId], u) THEN "forbidden"
              ELSE "ok"

\* POST /chat/messages (and /messages/http-fallback): normalizeAttachmentUrls,
\* validateMessageContent, messageController.sendMessage.  The outcome and the
\* stores the request leaves.
sendMessage(u, chatId, chatType, text, attachments) ==
    LET atts == normalizeAttachmentUrls(attachments)
        check == SendMessageCheck(u, chatId, chatType, text, atts)
        id == Len(messages) + 1
    IN  IF check # "ok" THEN Rejected(check)
        ELSE IF chatType = "private"
        THEN LET chat == privateChats[chatId]
                 recipientId == OtherParticipant(chat, u)
             IN  [reason |-> "ok", stores |->
                    [messages |-> Append(messages,
                        NewMessage(u, recipientId, NoGroup, text, "private",
                                   chat.participants, atts)),
                     privateChats |-> [privateChats EXCEPT
                        ![chatId].lastMessage = LastMessage(text, u, clock)],
                     groups |-> groups,
                     notifications |-> Append(notifications,
                        Notif(recipientId, "new_message", u, chatId, "PrivateChat", id))]]
        ELSE LET g == groups[chatId]
                 memberIds == MemberIds(g)
                 to == SeqFilter(memberIds, Range(memberIds) \ {u})
             IN  [reason |-> "ok", stores |->
                    [messages |-> Append(messages,
                        NewMessage(u, NoUser, chatId, text, "group", memberIds, atts)),
                     privateChats |-> privateChats,
                     groups |-> [groups EXCEPT
                        ![chatId].lastMessage = LastMessage(text, u, clock)],
                     notifications |-> notifications \o [i \in 1..Len(to) |->
                        Notif(to[i], "new_message", u, chatId, "ChatGroup", id)]]]

\* activeUsers.get(u) names a live socket that is not in the room (lines
\* 656-659, 849-852).
HasSocketOutsideRoom(u, roomId) ==
    /\ u \in Users
    /\ activeUsers[u] # NoSocket
    /\ sockets[activeUsers[u]].state = "open"
    /\ roomId \notin sockets[activeUsers[u]].rooms

\* handleTypingStop({ roomId, userId }): the typing Map it leaves.
TypingStop(roomId, userId) ==
    IF roomId = NoRoom \/ ~typingUsers[roomId].has THEN typingUsers
    ELSE LET rest == typingUsers[roomId].users \ {userId}
         IN  [typingUsers EXCEPT ![roomId] =
                IF rest = {} THEN [has |-> FALSE, users |-> {}]
                ELSE [has |-> TRUE, users |-> rest]]

\* socket.on('private:message') of socket s: the outcome and the stores it
\* leaves.
privateMessage(s, roomId, recipientId, text, chatId, attachments) ==
    LET userId == sockets[s].user
        id == Len(messages) + 1
    IN  IF roomId = NoRoom \/ text = "" \/ recipientId = NoUser \/ chatId = NoChat
        THEN Rejected("invalid")
        ELSE IF chatId \notin 1..Len(privateChats) THEN Rejected("not_found")
        ELSE IF isBlocked(privateChats[chatId], recipientId) THEN Rejected("blocked")
        ELSE [reason |-> "ok", stores |->
                [messages |-> Append(messages,
                    NewMessage(userId, recipientId, NoGroup, text, "private",
                               <<userId, recipientId>>, attachments)),
                 privateChats |-> [privateChats EXCEPT
                    ![chatId].lastMessage = LastMessage(text, userId, clock)],
                 groups |-> groups,
                 notifications |->
                    IF HasSocketOutsideRoom(recipientId, roomId)
                    THEN Append(notifications,
                            Notif(recipientId, "new_message", userId, chatId, "PrivateChat", id))
                    ELSE notifications]]

\* socket.on('group:message') of socket s: the outcome and the stores it leaves.
groupMessage(s, roomId, groupId, text, attachments) ==
    LET userId == sockets[s].user
        id == Len(messages) + 1
    IN  IF roomId = NoRoom \/ text = "" \/ groupId = NoGroup THEN Rejected("invalid")
        ELSE IF ~FindGroupOfMember(groupId, userId) THEN Rejected("not_found")
        ELSE IF ~CanSendMessages(groups[groupId], userId) THEN Rejected("forbidden")
        ELSE LET memberIds == MemberIds(groups[groupId])
                 to == SeqFilter(memberIds,
                          {m \in Range(memberIds) \ {userId} : HasSocketOutsideRoom(m, roomId)})
             IN  [reason |-> "ok", stores |->
                    [messages |-> Append(messages,
                        NewMessage(userId, NoUser, groupId, text, "group", memberIds,
                                   attachments)),
                     privateChats |-> privateChats,
                     groups |-> [groups EXCEPT
                        ![groupId].lastMessage = LastMessage(text, userId, clock)],
                     notifications |-> notifications \o [i \in 1..Len(to) |->
                        Notif(to[i], "new_message", userId, groupId, "ChatGroup", id)]]]

\* Message.findOne(...).sort({ createdAt: -1 }) among the documents ids: the
\* newest; documents of one clock value are ordered by insertion.
Latest(ids) ==
    CHOOSE i \in ids : \A j \in ids :
        \/ messages[i].createdAt > messages[j].createdAt
        \/ (messages[i].createdAt = messages[j].createdAt /\ i >= j)

\* The chat a message belongs to: the group it names, or the active private
\* chat of its participants (NoChat when there is none).
OwningChat(m) ==
    IF m.chatType = "group" THEN m.group ELSE FindChatByAll(Range(m.participants))

\* The documents deleteMessage searches for the new lastMessage (lines
\* 527-530, 552-555).
DeleteCandidates(messageId) ==
    LET message == messages[messageId]
    IN  {i \in (1..Len(messages)) \ {messageId} :
            /\ messages[i].exists
            /\ IF message.chatType = "private"
               THEN Range(message.participants) \subseteq Range(messages[i].participants)
               ELSE messages[i].group = message.group}

\* deleteMessage without the test that the caller sent the message.
deleteMessageOfAnyone(u, messageId) ==
    IF messageId \notin 1..Len(messages) \/ ~messages[messageId].exists
    THEN Rejected("not_found")
    ELSE LET message == messages[messageId]
             cands == DeleteCandidates(messageId)
             chat == OwningChat(message)
             last == LET l == messages[Latest(cands)]
                     IN  LastMessage(l.text, l.sender, l.createdAt)
         IN  [reason |-> "ok", stores |->
                [messages |-> [messages EXCEPT ![messageId] = Absent],
                 privateChats |->
                    IF message.chatType = "private" /\ cands # {} /\ chat # NoChat
                    THEN [privateChats EXCEPT ![chat].lastMessage = last]
                    ELSE privateChats,
                 groups |->
                    IF /\ message.chatType = "group" /\ cands # {}
                       /\ chat \in GroupIds /\ groups[chat].exists
                    THEN [groups EXCEPT ![chat].lastMessage = last]
                    ELSE groups,
                 notifications |-> notifications]]

\* DELETE /chat/messages/:messageId: the outcome and the stores it leaves.
deleteMessage(u, messageId) ==
    IF messageId \notin 1..Len(messages) \/ ~messages[messageId].exists
    THEN Rejected("not_found")
    ELSE IF messages[messageId].sender # u THEN Rejected("forbidden")
    ELSE LET message == messages[messageId]
             cands == DeleteCandidates(messageId)
             chat == OwningChat(message)
             last == LET l == messages[Latest(cands)]
                     IN  LastMessage(l.text, l.sender, l.createdAt)
         IN  [reason |-> "ok", stores |->
                [messages |-> [messages EXCEPT ![messageId] = Absent],
                 privateChats |->
                    IF message.chatType = "private" /\ cands # {} /\ chat # NoChat
                    THEN [privateChats EXCEPT ![chat].lastMessage = last]
                    ELSE privateChats,
                 groups |->
                    IF /\ message.chatType = "group" /\ cands # {}
                       /\ chat \in GroupIds /\ groups[chat].exists
                    THEN [groups EXCEPT ![chat].lastMessage = last]
                    ELSE groups,
                 notifications |-> notifications]]

\* PUT /chat/private/:chatId/block: the caller's own block flag is flipped.
toggleBlockUser(u, chatId) ==
    IF ~FindChatOfParticipant(chatId, u) THEN Rejected("not_found")
    ELSE LET i == StatusIndex(privateChats[chatId], u)
         IN  [reason |-> "ok", stores |->
                [Stores EXCEPT !.privateChats[chatId].participantStatus[i].isBlocked = ~@]]

\* ------------------------------------------------------------------ SpecSend
\* The private chats u1-u2 and u1-u3 and the group Team (u1 admin, u2 and u3
\* members) exist; u1 and u2 are connected, u3 is not.  Requests run one at a time:
\* HTTP sends and deletes of every account, socket sends of the connected
\* ones, and block toggles.  u2's socket is in the private room and in no
\* group room, u1's socket is in no room.  Every accepted send takes one unit
\* of time, so createdAt follows the order of insertion.  lastOp is the latest
\* request that changed a store; a rejected request changes nothing.
SendRooms == [s \in Sockets |-> IF s = "s2" THEN {PrivateRoom("u1", "u2")} ELSE {}]
\* Chats and groups that requests name.
SendChatIds == {1, 2}
\* The chat whose block flags are toggled.
BlockChatIds == {1}
SendGroupIds == {1}
\* Payloads of requests: a text, an attachment without text, and nothing.
SendPayloads ==
    {[text |-> "hi", attachments |-> <<>>],
     [text |-> "", attachments |-> <<ClientAttachment>>],
     [text |-> "", attachments |-> <<>>]}
InitSend ==
    /\ clock = 0
    /\ \E sm \in {"all_members", "admins_only"} :
            groups = [g \in GroupIds |->
                IF g = 1
                THEN PreSaveNew(NewGroupDoc("u1", "Team", <<"u2", "u3">>,
                                            [sendMessages |-> sm]))
                ELSE Absent]
    /\ privateChats = <<NewPrivateChat("u1", "u2"), NewPrivateChat("u1", "u3")>>
    /\ messages = <<>>
    /\ notifications = <<>>
    /\ presence = [u \in Users |-> Absent]
    /\ activeUsers = [u \in Users |->
            IF u = "u1" THEN "s1" ELSE IF u = "u2" THEN "s2" ELSE NoSocket]
    /\ userSockets = SocketUser
    /\ sockets = [s \in Sockets |->
            IF SocketUser[s] = NoUser
            THEN FreeSocket
            ELSE [state |-> "open", user |-> SocketUser[s], rooms |-> SendRooms[s],
                  seq |-> UserRank(SocketUser[s])]]
    /\ typingUsers = NoTyping
    /\ tasks = [s \in Sockets |-> Idle]
    /\ lastOp = NoOp

\* The record of a message request that changed a store.
MsgOp(op, actor, chatType, chat, msg) ==
    [op |-> op, actor |-> actor, chatType |-> chatType, chat |-> chat,
     msg |-> msg, ok |-> TRUE]

\* The stores take the values the request leaves.
Commit(r) ==
    /\ Len(r.stores.messages) <= MaxMsgs
    /\ Len(r.stores.notifications) <= MaxNotifs
    /\ messages' = r.stores.messages
    /\ privateChats' = r.stores.privateChats
    /\ groups' = r.stores.groups
    /\ notifications' = r.stores.notifications
    /\ clock' = IF Len(r.stores.messages) > Len(messages) THEN clock + 1 ELSE clock

notStoreVars == <<presence, activeUsers, userSockets, sockets, tasks>>

DoSendMessage ==
    \E u \in Users, chatType \in {"private", "group"}, p \in SendPayloads :
        \E chatId \in IF chatType = "private" THEN SendChatIds ELSE SendGroupIds :
            LET r == sendMessage(u, chatId, chatType, p.text, p.attachments)
            IN  /\ Commit(r)
                /\ lastOp' = IF r.stores = Stores THEN lastOp
                             ELSE MsgOp("sendMessage", u, chatType, chatId, Len(messages) + 1)
                /\ UNCHANGED <<notStoreVars, typingUsers>>
DoPrivateMessage ==
    \E s \in Sockets, recipientId \in Users, chatId \in SendChatIds, p \in SendPayloads :
        /\ sockets[s].state = "open"
        /\ recipientId # sockets[s].user
        /\ LET roomId == PrivateRoom(sockets[s].user, recipientId)
               r == privateMessage(s, roomId, recipientId, p.text, chatId, p.attachments)
           IN  /\ Commit(r)
               /\ typingUsers' = IF r.reason = "ok"
                                 THEN TypingStop(roomId, sockets[s].user)
                                 ELSE typingUsers
               /\ lastOp' = IF r.stores = Stores THEN lastOp
                            ELSE MsgOp("private:message", sockets[s].user, "private",
                                       chatId, Len(messages) + 1)
        /\ UNCHANGED notStoreVars
DoGroupMessage ==
    \E s \in Sockets, groupId \in SendGroupIds, p \in SendPayloads :
        /\ sockets[s].state = "open"
        /\ LET roomId == GroupRoom(groupId)
               r == groupMessage(s, roomId, groupId, p.text, p.attachments)
           IN  /\ Commit(r)
               /\ typingUsers' = IF r.reason = "ok"
                                 THEN TypingStop(roomId, sockets[s].user)
                                 ELSE typingUsers
               /\ lastOp' = IF r.stores = Stores THEN lastOp
                            ELSE MsgOp("group:message", sockets[s].user, "group",
                                       groupId, Len(messages) + 1)
        /\ UNCHANGED notStoreVars
DoDeleteMessage ==
    \E u \in Users, messageId \in 1..MaxMsgs :
        LET r == deleteMessage(u, messageId)
        IN  /\ Commit(r)
            /\ lastOp' = IF r.stores = Stores THEN lastOp
                         ELSE MsgOp("deleteMessage", u, messages[messageId].chatType,
                                    OwningChat(messages[messageId]), messageId)
            /\ UNCHANGED <<notStoreVars, typingUsers>>
DoToggleBlockUser ==
    \E u \in Users, chatId \in BlockChatIds :
        LET r == toggleBlockUser(u, chatId)
        IN  /\ Commit(r)
            /\ lastOp' = IF r.stores = Stores THEN lastOp
                         ELSE MsgOp("toggleBlockUser", u, "private", chatId, NoMsg)
            /\ UNCHANGED <<notStoreVars, typingUsers>>

NextSend ==
    \/ DoSendMessage
    \/ DoPrivateMessage
    \/ DoGroupMessage
    \/ DoDeleteMessage
    \/ DoToggleBlockUser

SpecSend == InitSend /\ [][NextSend]_vars

\* ------------------------------------------------------- claims on SpecSend
\* The stored messages of a chat: of a group, those that name it; of a private
\* chat, the private ones between its participants.
ChatMessages(chatType, chat) ==
    {i \in 1..Len(messages) :
        /\ messages[i].exists
        /\ messages[i].chatType = chatType
        /\ IF chatType = "group" THEN messages[i].group = chat
           ELSE Range(messages[i].participants) = Range(privateChats[chat].participants)}

\* What a comparison of two outcomes looks at: the documents, with a message's
\* participants and readers taken as sets and the notifications as a set.
PersistedView(st) ==
    [messages |-> [i \in 1..Len(st.messages) |->
        IF ~st.messages[i].exists THEN st.messages[i]
        ELSE [st.messages[i] EXCEPT !.participants = Range(@), !.readBy = Range(@)]],
     privateChats |-> st.privateChats,
     groups |-> st.groups,
     notifications |-> Range(st.notifications)]

\* C6: on each of the three send paths, for a sender whose send of an ordinary
\* text is accepted, a send with empty text and no attachment is rejected and
\* leaves the stores as they were, and a send with empty text and one
\* attachment is accepted and stores a Message whose text is "".
C6_EmptyTextRules ==
    /\ \A u \in Users, chatType \in {"private", "group"}, chatId \in SendChatIds \cup GroupIds :
            sendMessage(u, chatId, chatType, "hi", <<>>).reason = "ok" =>
                /\ sendMessage(u, chatId, chatType, "", <<>>).reason # "ok"
                /\ sendMessage(u, chatId, chatType, "", <<>>).stores = Stores
                /\ LET r == sendMessage(u, chatId, chatType, "", <<ClientAttachment>>)
                   IN  /\ r.reason = "ok"
                       /\ Len(r.stores.messages) = Len(messages) + 1
                       /\ r.stores.messages[Len(messages) + 1].text = ""
    /\ \A s \in Sockets, peer \in Users, chatId \in SendChatIds :
            LET room == PrivateRoom(sockets[s].user, peer)
            IN  (/\ sockets[s].state = "open"
                 /\ privateMessage(s, room, peer, "hi", chatId, <<>>).reason = "ok") =>
                    /\ privateMessage(s, room, peer, "", chatId, <<>>).reason # "ok"
                    /\ privateMessage(s, room, peer, "", chatId, <<>>).stores = Stores
                    /\ LET r == privateMessage(s, room, peer, "", chatId, <<ClientAttachment>>)
                       IN  /\ r.reason = "ok"
                           /\ Len(r.stores.messages) = Len(messages) + 1
                           /\ r.stores.messages[Len(messages) + 1].text = ""
    /\ \A s \in Sockets, groupId \in GroupIds :
            (/\ sockets[s].state = "open"
             /\ groupMessage(s, GroupRoom(groupId), groupId, "hi", <<>>).reason = "ok") =>
                /\ groupMessage(s, GroupRoom(groupId), groupId, "", <<>>).reason # "ok"
                /\ groupMessage(s, GroupRoom(groupId), groupId, "", <<>>).stores = Stores
                /\ LET r == groupMessage(s, GroupRoom(groupId), groupId, "", <<ClientAttachment>>)
                   IN  /\ r.reason = "ok"
                       /\ Len(r.stores.messages) = Len(messages) + 1
                       /\ r.stores.messages[Len(messages) + 1].text = ""

\* C7: from the same stores, with the same sender, chat, text and attachments,
\* the socket send (private:message, group:message) and the HTTP send leave
\* the same messages, the same lastMessage caches and the same set of
\* notifications.
C7_SamePersistedState ==
    \A s \in Sockets, text \in Texts, attachments \in AttachmentLists :
        sockets[s].state = "open" =>
            LET u == sockets[s].user
            IN  /\ \A chatId \in 1..Len(privateChats) :
                        LET peer == OtherParticipant(privateChats[chatId], u)
                        IN  (FindChatOfParticipant(chatId, u) /\ peer # NoUser) =>
                                PersistedView(privateMessage(s, PrivateRoom(u, peer), peer,
                                                text, chatId, attachments).stores)
                                = PersistedView(sendMessage(u, chatId, "private",
                                                text, attachments).stores)
                /\ \A groupId \in GroupIds :
                        FindGroupOfMember(groupId, u) =>
                            PersistedView(groupMessage(s, GroupRoom(groupId), groupId,
                                            text, attachments).stores)
                            = PersistedView(sendMessage(u, groupId, "group",
                                            text, attachments).stores)

\* C8: right after an accepted deleteMessage, the lastMessage cache of the
\* chat or group the message belonged to is null when no message of that chat
\* is left, and is the one message left when the deleted one was newer.
C8_LastMessageAfterDelete ==
    (lastOp.op = "deleteMessage" /\ lastOp.chat # NoChat) =>
        LET left == ChatMessages(lastOp.chatType, lastOp.chat)
            cache == IF lastOp.chatType = "group" THEN groups[lastOp.chat].lastMessage
                     ELSE privateChats[lastOp.chat].lastMessage
        IN  /\ left = {} => cache = NoLast
            /\ \A i \in left :
                    (left = {i} /\ i < lastOp.msg) =>
                        cache = LastMessage(messages[i].text, messages[i].sender,
                                            messages[i].createdAt)

\* B has set the block in chat c of A and B, and A has not.
OneSidedBlock(c, A, B) ==
    /\ A # B
    /\ FindChatOfParticipant(c, A)
    /\ Range(privateChats[c].participants) = {A, B}
    /\ isBlocked(privateChats[c], B)
    /\ ~isBlocked(privateChats[c], A)

\* C9: in every reachable state where B has set the block in the chat of A
\* and B and A has not, a send from A to B is rejected on the HTTP path and on
\* the socket path and leaves the stores as they were, and a send from B to A
\* with a text is accepted on both paths and stores the message.
C9_DirectionalBlock ==
    \A c \in 1..Len(privateChats), A \in Users, B \in Users :
        OneSidedBlock(c, A, B) =>
            /\ \A text \in Texts, attachments \in AttachmentLists :
                    /\ sendMessage(A, c, "private", text, attachments).reason # "ok"
                    /\ sendMessage(A, c, "private", text, attachments).stores = Stores
                    /\ \A s \in Sockets, chatId \in 1..Len(privateChats) :
                            (sockets[s].state = "open" /\ sockets[s].user = A) =>
                                LET r == privateMessage(s, PrivateRoom(A, B), B, text,
                                                        chatId, attachments)
                                IN  r.reason # "ok" /\ r.stores = Stores
            /\ \A attachments \in AttachmentLists :
                    /\ LET r == sendMessage(B, c, "private", "hi", attachments)
                       IN  /\ r.reason = "ok"
                           /\ Len(r.stores.messages) = Len(messages) + 1
                           /\ r.stores.messages[Len(messages) + 1].sender = B
                           /\ r.stores.messages[Len(messages) + 1].recipient = A
                    /\ \A s \in Sockets :
                            (sockets[s].state = "open" /\ sockets[s].user = B) =>
                                LET r == privateMessage(s, PrivateRoom(B, A), A, "hi", c,
                                                        attachments)
                                IN  /\ r.reason = "ok"
                                    /\ Len(r.stores.messages) = Len(messages) + 1
                                    /\ r.stores.messages[Len(messages) + 1].sender = B
                                    /\ r.stores.messages[Len(messages) + 1].recipient = A

\* C35: every step that stores a private Message, on the socket path or on
\* the HTTP path, names an active chat the sender participates in and
\* stores as recipient that chat's other participant.
C35_PrivateMessageWithinChat ==
    [][(/\ lastOp'.op \in {"private:message", "sendMessage"}
        /\ Len(messages') = Len(messages) + 1
        /\ lastOp'.chatType = "private")
            => LET m == messages'[Len(messages')]
                   chat == privateChats[lastOp'.chat]
               IN  /\ chat.isActive
                   /\ m.sender \in Range(chat.participants)
                   /\ m.recipient = OtherParticipant(chat, m.sender)]_vars

\* C17: in every reachable state, deleteMessage of a stored message by its
\* sender is accepted and removes it, and by any other account is rejected
\* and leaves the messages and every chat's and group's lastMessage as they
\* were.
C17_OnlySenderDeletes ==
    \A u \in Users, messageId \in 1..Len(messages) :
        messages[messageId].exists =>
            LET r == deleteMessage(u, messageId)
            IN  IF u = messages[messageId].sender
                THEN r.reason = "ok" /\ ~r.stores.messages[messageId].exists
                ELSE /\ r.reason # "ok"
                     /\ r.stores.messages = messages
                     /\ r.stores.privateChats = privateChats
                     /\ r.stores.groups = groups

\* A message has been deleted, and another one is stored that is the cached
\* lastMessage of its chat and that an account other than its sender may ask
\* to delete.
C17_Witness ==
    /\ lastOp.op = "deleteMessage"
    /\ \E i \in 1..Len(messages), u \in Users :
            /\ messages[i].exists
            /\ u # messages[i].sender
            /\ u \in Range(messages[i].participants)
            /\ deleteMessage(u, i).reason = "forbidden"

\* ------------------------------------------------------------ SpecGroupSend
\* A group of u1 (admin, creator) and u2 under either sendMessages setting;
\* u1, u2 and u3 each have a connection.  Requests run one at a time: sends of
\* a text to the group on the HTTP path and on the socket path by anyone, and
\* the group controller's addMembers of u3, changeMemberRole and leaveGroup,
\* through which membership, roles and isActive change between sends.
\* The account of each connection.
GroupSendSocketUser ==
    [s \in Sockets |-> IF s = "s1" THEN "u1" ELSE IF s = "s2" THEN "u2" ELSE "u3"]
InitGroupSend ==
    /\ clock = 0
    /\ \E sm \in {"all_members", "admins_only"} :
            groups = [g \in GroupIds |->
                IF g = 1
                THEN PreSaveNew(NewGroupDoc("u1", "Team", <<"u2">>, [sendMessages |-> sm]))
                ELSE Absent]
    /\ privateChats = <<>>
    /\ messages = <<>>
    /\ notifications = <<>>
    /\ presence = [u \in Users |-> Absent]
    /\ activeUsers = [u \in Users |-> CHOOSE s \in Sockets : GroupSendSocketUser[s] = u]
    /\ userSockets = GroupSendSocketUser
    /\ sockets = [s \in Sockets |->
            [state |-> "open", user |-> GroupSendSocketUser[s], rooms |-> {},
             seq |-> UserRank(GroupSendSocketUser[s])]]
    /\ typingUsers = NoTyping
    /\ tasks = [s \in Sockets |-> Idle]
    /\ lastOp = NoOp

DoGroupSendHttp ==
    \E u \in Users :
        LET r == sendMessage(u, 1, "group", "hi", <<>>)
        IN  /\ Commit(r)
            /\ lastOp' = IF r.stores = Stores THEN lastOp
                         ELSE MsgOp("sendMessage", u, "group", 1, Len(messages) + 1)
            /\ UNCHANGED <<notStoreVars, typingUsers>>
DoGroupSendSocket ==
    \E s \in Sockets :
        /\ sockets[s].state = "open"
        /\ LET r == groupMessage(s, GroupRoom(1), 1, "hi", <<>>)
           IN  /\ Commit(r)
               /\ typingUsers' = IF r.reason = "ok"
                                 THEN TypingStop(GroupRoom(1), sockets[s].user)
                                 ELSE typingUsers
               /\ lastOp' = IF r.stores = Stores THEN lastOp
                            ELSE MsgOp("group:message", sockets[s].user, "group", 1,
                                       Len(messages) + 1)
        /\ UNCHANGED notStoreVars
DoGroupSendAddMembers ==
    /\ notifications = <<>>
    /\ \E actor \in Users : AddMembers(actor, 1, <<"u3">>)
    /\ UNCHANGED notGroupVars
DoGroupSendChangeRole ==
    /\ notifications = <<>>
    /\ \E actor \in Users, target \in Users, role \in Roles :
            ChangeMemberRole(actor, 1, target, role)
    /\ UNCHANGED notGroupVars
DoGroupSendLeave ==
    /\ notifications = <<>>
    /\ \E actor \in Users : LeaveGroup(actor, 1)
    /\ UNCHANGED notGroupVars

NextGroupSend ==
    \/ DoGroupSendHttp
    \/ DoGroupSendSocket
    \/ DoGroupSendAddMembers
    \/ DoGroupSendChangeRole
    \/ DoGroupSendLeave
    \/ ExpireNotifications

SpecGroupSend == InitGroupSend /\ [][NextGroupSend]_vars

\* Group gid is active and u is a member of it who is admin or whom the
\* sendMessages setting lets send.
MaySendToGroup(gid, u) ==
    /\ gid \in GroupIds
    /\ groups[gid].exists
    /\ groups[gid].isActive
    /\ isMember(groups[gid], u)
    /\ (isAdmin(groups[gid], u) \/ groups[gid].settings.sendMessages = "all_members")

\* C18: in every reachable state, a group send on the HTTP path or on the
\* socket path by a sender who is not a member of the active group, or who
\* is neither admin nor let send by the all_members setting, stores no
\* Message and leaves the groups, their lastMessage included, as they were.
C18_GroupSendNeedsPermission ==
    \A gid \in GroupIds, p \in SendPayloads :
        /\ \A u \in Users :
                LET r == sendMessage(u, gid, "group", p.text, p.attachments)
                IN  ~MaySendToGroup(gid, u) =>
                        r.stores.messages = messages /\ r.stores.groups = groups
        /\ \A s \in Sockets :
                sockets[s].state = "open" =>
                    LET r == groupMessage(s, GroupRoom(gid), gid, p.text, p.attachments)
                    IN  ~MaySendToGroup(gid, sockets[s].user) =>
                            r.stores.messages = messages /\ r.stores.groups = groups

\* The group is restricted to admins, a send has been stored, and some member
\* who is not admin, and some account that is not a member, may ask to send.
C18_Witness ==
    /\ groups[1].exists /\ groups[1].isActive
    /\ groups[1].settings.sendMessages = "admins_only"
    /\ lastOp.op \in {"sendMessage", "group:message"}
    /\ \E u \in Users : isMember(groups[1], u) /\ ~isAdmin(groups[1], u)
    /\ \E u \in Users : ~isMember(groups[1], u)

\* Account u has an open connection joined to the room.
JoinedToRoom(u, roomId) ==
    \E c \in Sockets :
        sockets[c].state = "open" /\ sockets[c].user = u /\ roomId \in sockets[c].rooms
\* The notifications ns hold a new_message notification of message id for u.
NotifiedOfMessage(ns, u, id) ==
    \E i \in 1..Len(ns) :
        ns[i].recipient = u /\ ns[i].type = "new_message" /\ ns[i].message = id

\* C15: in every reachable state, a private:message or group:message that is
\* accepted persists a new_message notification for each recipient (the
\* private peer, each non-sender member) that has no connection joined to
\* the room, also when that recipient has no connection at all.
C15_NotifiedWhenNotInRoom ==
    \A s \in Sockets :
        sockets[s].state = "open" =>
            LET A == sockets[s].user
                id == Len(messages) + 1
            IN  /\ \A chatId \in 1..Len(privateChats) :
                        FindChatOfParticipant(chatId, A) =>
                            LET B == OtherParticipant(privateChats[chatId], A)
                                r == privateMessage(s, PrivateRoom(A, B), B, "hi", chatId, <<>>)
                            IN  (r.reason = "ok" /\ ~JoinedToRoom(B, PrivateRoom(A, B)))
                                    => NotifiedOfMessage(r.stores.notifications, B, id)
                /\ \A gid \in GroupIds :
                        LET r == groupMessage(s, GroupRoom(gid), gid, "hi", <<>>)
                        IN  r.reason = "ok" =>
                                \A m \in Range(MemberIds(groups[gid])) \ {A} :
                                    ~JoinedToRoom(m, GroupRoom(gid))
                                        => NotifiedOfMessage(r.stores.notifications, m, id)

\* ====================================================================
\* Read marking: markAsRead, markAllAsRead (messageController) and
\* getChatMessages (chatController)
\* ====================================================================
\* parseInt(req.query.limit) || 20
PageLimit == 20

\* Message.findOne({ _id: messageId, participants: u }) finds a document.
FindMessageOfParticipant(msgs, messageId, u) ==
    /\ messageId \in 1..Len(msgs)
    /\ msgs[messageId].exists
    /\ u \in Range(msgs[messageId].participants)

\* $push of { user: u } to readBy of the documents ids that exist.
PushReader(msgs, ids, u) ==
    [i \in 1..Len(msgs) |->
        IF i \in ids /\ msgs[i].exists
        THEN [msgs[i] EXCEPT !.readBy = Append(@, u)]
        ELSE msgs[i]]

\* markAsRead without the alreadyRead test: the reader is always pushed.
markAsReadAlways(st, u, messageId) ==
    IF ~FindMessageOfParticipant(st.messages, messageId, u)
    THEN [reason |-> "not_found", stores |-> st]
    ELSE [reason |-> "ok", stores |->
            [st EXCEPT !.messages = PushReader(@, {messageId}, u)]]

\* PUT /chat/messages/:messageId/read on the stores st: the outcome and the
\* stores it leaves.
markAsRead(st, u, messageId) ==
    IF ~FindMessageOfParticipant(st.messages, messageId, u)
    THEN [reason |-> "not_found", stores |-> st]
    ELSE LET alreadyRead == u \in Range(st.messages[messageId].readBy)
         IN  [reason |-> "ok", stores |->
                IF alreadyRead THEN st
                ELSE [st EXCEPT !.messages = PushReader(@, {messageId}, u)]]

\* The chat lookup of markAllAsRead and getChatMessages (lines 388-400,
\* chatController 48-60) finds a document.
FindChatOfReader(st, u, chatId, chatType) ==
    IF chatType = "private"
    THEN /\ chatId \in 1..Len(st.privateChats)
         /\ u \in Range(st.privateChats[chatId].participants)
         /\ st.privateChats[chatId].isActive
    ELSE /\ chatId \in GroupIds
         /\ st.groups[chatId].exists
         /\ st.groups[chatId].isActive
         /\ isMember(st.groups[chatId], u)

\* The chat's lastRead of u is stamped and the chat saved (lines 439-457,
\* chatController 126-144).
StampLastRead(st, u, chatId, chatType) ==
    IF chatType = "private"
    THEN LET i == StatusIndex(st.privateChats[chatId], u)
         IN  IF i = 0 THEN st
             ELSE [st EXCEPT !.privateChats[chatId].participantStatus[i].lastRead = clock]
    ELSE LET i == MemberIndex(st.groups[chatId], u)
         IN  IF i = 0 THEN st
             ELSE [st EXCEPT !.groups[chatId].members[i].lastRead = clock]

\* ChatNotification.markAllAsReadForChat(u, chatId, chatModel)
markAllAsReadForChat(ns, u, chatId, chatModel) ==
    [i \in 1..Len(ns) |->
        IF /\ ns[i].recipient = u /\ ~ns[i].read
           /\ ns[i].model = chatModel /\ ns[i].chat = chatId
        THEN [ns[i] EXCEPT !.read = TRUE]
        ELSE ns[i]]
ChatModel(chatType) == IF chatType = "private" THEN "PrivateChat" ELSE "ChatGroup"

\* The documents markAllAsRead's updateMany matches (lines 410-423).
MarkAllQuery(msgs, u, chatId, chatType) ==
    {i \in 1..Len(msgs) :
        /\ msgs[i].exists
        /\ msgs[i].chatType = chatType
        /\ u \in Range(msgs[i].participants)
        /\ u \notin Range(msgs[i].readBy)
        /\ IF chatType = "private"
           THEN msgs[i].sender = u \/ msgs[i].recipient = u
           ELSE msgs[i].group = chatId}

\* POST /chat/messages/read-all on the stores st.
markAllAsRead(st, u, chatId, chatType) ==
    IF ~FindChatOfReader(st, u, chatId, chatType)
    THEN [reason |-> "not_found", stores |-> st]
    ELSE LET marked == [st EXCEPT !.messages =
                            PushReader(@, MarkAllQuery(@, u, chatId, chatType), u)]
             stamped == StampLastRead(marked, u, chatId, chatType)
         IN  [reason |-> "ok", stores |->
                [stamped EXCEPT !.notifications =
                    markAllAsReadForChat(@, u, chatId, ChatModel(chatType))]]

\* The documents getChatMessages' find matches (chatController 70-92).
FetchQuery(st, u, chatId, chatType) ==
    LET other == IF chatType = "private"
                 THEN OtherParticipant(st.privateChats[chatId], u) ELSE NoUser
    IN  {i \in 1..Len(st.messages) :
            /\ st.messages[i].exists
            /\ st.messages[i].chatType = chatType
            /\ IF chatType = "group" THEN st.messages[i].group = chatId
               ELSE IF other # NoUser
               THEN \/ st.messages[i].sender = u /\ st.messages[i].recipient = other
                    \/ st.messages[i].recipient = u /\ st.messages[i].sender = other
               ELSE \/ st.messages[i].sender = u /\ st.messages[i].recipient # NoUser
                    \/ st.messages[i].recipient = u}
\* .sort({ createdAt: -1 }).skip(0).limit(limit): the PageLimit newest of ids.
FirstPage(ids) == {i \in ids : Cardinality({j \in ids : j > i}) < PageLimit}
\* The fetched documents that do not list u as a reader (chatController 106-110).
UnreadIds(msgs, ids, u) == {i \in ids : u \notin Range(msgs[i].readBy)}

\* GET /chat/:chatId/messages on the stores st.
getChatMessages(st, u, chatId, chatType) ==
    IF ~FindChatOfReader(st, u, chatId, chatType)
    THEN [reason |-> "not_found", stores |-> st]
    ELSE LET unread == UnreadIds(st.messages,
                                 FirstPage(FetchQuery(st, u, chatId, chatType)), u)
         IN  IF unread = {} THEN [reason |-> "ok", stores |-> st]
             ELSE LET marked == [st EXCEPT !.messages = PushReader(@, unread, u)]
                      stamped == StampLastRead(marked, u, chatId, chatType)
                  IN  [reason |-> "ok", stores |->
                         [stamped EXCEPT !.notifications =
                             markAllAsReadForChat(@, u, chatId, ChatModel(chatType))]]

\* --------------------------------------------------------------- SpecReadSeq
\* The chats of SpecSend, where every member may send to the group.  Requests
\* run one at a time, by u1 and u2: HTTP sends of a text to the private chats
\* and the group, markAsRead of any message, and markAllAsRead and
\* getChatMessages of the private chats.  lastOp is the latest request that changed a
\* store.
InitReadSeq ==
    /\ clock = 0
    /\ groups = [g \in GroupIds |->
            IF g = 1 THEN PreSaveNew(NewGroupDoc("u1", "Team", <<"u2", "u3">>, <<>>))
            ELSE Absent]
    /\ privateChats = <<NewPrivateChat("u1", "u2"), NewPrivateChat("u1", "u3")>>
    /\ messages = <<>>
    /\ notifications = <<>>
    /\ presence = [u \in Users |-> Absent]
    /\ activeUsers = [u \in Users |-> NoSocket]
    /\ userSockets = [s \in Sockets |-> NoUser]
    /\ sockets = [s \in Sockets |-> FreeSocket]
    /\ typingUsers = NoTyping
    /\ tasks = [s \in Sockets |-> Idle]
    /\ lastOp = NoOp

\* The accounts that send requests.
Readers == {"u1", "u2"}
\* The chats that sends name: by type, the ids.
ReadChats ==
    {[chatType |-> "private", chatId |-> 1], [chatType |-> "private", chatId |-> 2],
     [chatType |-> "group", chatId |-> 1]}
\* The chats that markAllAsRead and getChatMessages requests name.
PrivateReadChats ==
    {[chatType |-> "private", chatId |-> 1], [chatType |-> "private", chatId |-> 2]}

DoReadSeqSend ==
    \E u \in Readers, c \in ReadChats :
        LET r == sendMessage(u, c.chatId, c.chatType, "hi", <<>>)
        IN  /\ Commit(r)
            /\ lastOp' = IF r.stores = Stores THEN lastOp
                         ELSE MsgOp("sendMessage", u, c.chatType, c.chatId, Len(messages) + 1)
            /\ UNCHANGED <<notStoreVars, typingUsers>>
DoMarkAsRead ==
    \E u \in Readers, messageId \in 1..MaxMsgs :
        LET r == markAsRead(Stores, u, messageId)
        IN  /\ Commit(r)
            /\ lastOp' = IF r.stores = Stores THEN lastOp
                         ELSE MsgOp("markAsRead", u, messages[messageId].chatType,
                                    NoChat, messageId)
            /\ UNCHANGED <<notStoreVars, typingUsers>>
DoMarkAllAsRead ==
    \E u \in Readers, c \in PrivateReadChats :
        LET r == markAllAsRead(Stores, u, c.chatId, c.chatType)
        IN  /\ Commit(r)
            /\ lastOp' = IF r.stores = Stores THEN lastOp
                         ELSE MsgOp("markAllAsRead", u, c.chatType, c.chatId, NoMsg)
            /\ UNCHANGED <<notStoreVars, typingUsers>>
DoGetChatMessages ==
    \E u \in Readers, c \in PrivateReadChats :
        LET r == getChatMessages(Stores, u, c.chatId, c.chatType)
        IN  /\ Commit(r)
            /\ lastOp' = IF r.stores = Stores THEN lastOp
                         ELSE MsgOp("getChatMessages", u, c.chatType, c.chatId, NoMsg)
            /\ UNCHANGED <<notStoreVars, typingUsers>>

NextReadSeq ==
    \/ DoReadSeqSend
    \/ DoMarkAsRead
    \/ DoMarkAllAsRead
    \/ DoGetChatMessages

SpecReadSeq == InitReadSeq /\ [][NextReadSeq]_vars

\* ------------------------------------------------------------- SpecReadGroup
\* A group of u1 (admin) and u2 to which u3 may be added.  Requests run one at
\* a time: HTTP sends of a text to the group, addMembers of u3 by the admin,
\* and markAsRead, markAllAsRead and getChatMessages of the group by anyone.
InitReadGroup ==
    /\ clock = 0
    /\ groups = [g \in GroupIds |->
            IF g = 1 THEN PreSaveNew(NewGroupDoc("u1", "Team", <<"u2">>, <<>>))
            ELSE Absent]
    /\ privateChats = <<>>
    /\ messages = <<>>
    /\ notifications = <<>>
    /\ presence = [u \in Users |-> Absent]
    /\ activeUsers = [u \in Users |-> NoSocket]
    /\ userSockets = [s \in Sockets |-> NoUser]
    /\ sockets = [s \in Sockets |-> FreeSocket]
    /\ typingUsers = NoTyping
    /\ tasks = [s \in Sockets |-> Idle]
    /\ lastOp = NoOp

DoReadGroupSend ==
    \E u \in Readers :
        LET r == sendMessage(u, 1, "group", "hi", <<>>)
        IN  /\ Commit(r)
            /\ lastOp' = IF r.stores = Stores THEN lastOp
                         ELSE MsgOp("sendMessage", u, "group", 1, Len(messages) + 1)
            /\ UNCHANGED <<notStoreVars, typingUsers>>
DoReadGroupAddMembers ==
    /\ isAdmin(groups[1], "u1")
    /\ ~isMember(groups[1], "u3")
    /\ AddMembers("u1", 1, <<"u3">>)
    /\ UNCHANGED notGroupVars
DoReadGroupMarkAsRead ==
    \E u \in Users, messageId \in 1..MaxMsgs :
        LET r == markAsRead(Stores, u, messageId)
        IN  /\ Commit(r)
            /\ lastOp' = IF r.stores = Stores THEN lastOp
                         ELSE MsgOp("markAsRead", u, "group", NoChat, messageId)
            /\ UNCHANGED <<notStoreVars, typingUsers>>
DoReadGroupMarkAllAsRead ==
    \E u \in Users :
        LET r == markAllAsRead(Stores, u, 1, "group")
        IN  /\ Commit(r)
            /\ lastOp' = IF r.stores = Stores THEN lastOp
                         ELSE MsgOp("markAllAsRead", u, "group", 1, NoMsg)
            /\ UNCHANGED <<notStoreVars, typingUsers>>
DoReadGroupGetChatMessages ==
    \E u \in Users :
        LET r == getChatMessages(Stores, u, 1, "group")
        IN  /\ Commit(r)
            /\ lastOp' = IF r.stores = Stores THEN lastOp
                         ELSE MsgOp("getChatMessages", u, "group", 1, NoMsg)
            /\ UNCHANGED <<notStoreVars, typingUsers>>

NextReadGroup ==
    \/ DoReadGroupSend
    \/ DoReadGroupAddMembers
    \/ DoReadGroupMarkAsRead
    \/ DoReadGroupMarkAllAsRead
    \/ DoReadGroupGetChatMessages

SpecReadGroup == InitReadGroup /\ [][NextReadGroup]_vars

\* The lastRead of u on the chat's status or membership record in stores st;
\* -1 when u has no such record.
LastReadOf(st, u, chatId, chatType) ==
    IF chatType = "private"
    THEN LET i == StatusIndex(st.privateChats[chatId], u)
         IN  IF i = 0 THEN -1 ELSE st.privateChats[chatId].participantStatus[i].lastRead
    ELSE LET i == MemberIndex(st.groups[chatId], u)
         IN  IF i = 0 THEN -1 ELSE st.groups[chatId].members[i].lastRead

\* C16: in every reachable state, a markAllAsRead(chatId, chatType) by actor
\* that succeeds leaves every message of that chat with a read receipt of
\* actor, actor's lastRead on the chat set to the time of the request, and
\* every notification for actor that refers to the chat marked read.
C16_MarkAllAsReadEffect ==
    \A u \in Users, chatType \in {"private", "group"}, chatId \in 1..2 :
        LET r == markAllAsRead(Stores, u, chatId, chatType)
        IN  (FindChatOfReader(Stores, u, chatId, chatType) /\ r.reason = "ok") =>
                /\ \A i \in ChatMessages(chatType, chatId) :
                        u \in Range(r.stores.messages[i].readBy)
                /\ LastReadOf(r.stores, u, chatId, chatType) = clock
                /\ \A i \in 1..Len(r.stores.notifications) :
                        LET n == r.stores.notifications[i]
                        IN  (n.recipient = u /\ n.chat = chatId
                                /\ n.model = ChatModel(chatType)) => n.read

\* C37: in every reachable state, a markAllAsRead of the private chat
\* chatId by actor that succeeds leaves the readBy of every message that is
\* not a private message of that chat as it was.
C37_MarkAllAsReadOtherChatsKept ==
    \A u \in Users, chatId \in 1..Len(privateChats) :
        LET r == markAllAsRead(Stores, u, chatId, "private")
        IN  r.reason = "ok" =>
                \A i \in (1..Len(messages)) \ ChatMessages("private", chatId) :
                    r.stores.messages[i].exists =>
                        r.stores.messages[i].readBy = messages[i].readBy

\* ---------------------------------------------------------------- SpecDelete
\* The chats of SpecReadSeq.  Requests run one at a time: HTTP sends of a text
\* by u1 and u2 to the private chats and the group, and deleteMessage of any
\* message by anyone.
InitDelete == InitReadSeq

NextDelete ==
    \/ DoReadSeqSend
    \/ DoDeleteMessage

SpecDelete == InitDelete /\ [][NextDelete]_vars

\* C38: a deleteMessage of a private message that changes the lastMessage
\* of the private chat sets it from a remaining private message exchanged
\* between the chat's two participants.
C38_LastMessageFromSameChat ==
    [][\A c \in 1..Len(privateChats) :
        (/\ lastOp'.op = "deleteMessage"
         /\ lastOp'.chatType = "private"
         /\ privateChats'[c].lastMessage # privateChats[c].lastMessage)
            => \E i \in 1..Len(messages') :
                    /\ messages'[i].exists
                    /\ messages'[i].chatType = "private"
                    /\ Range(messages'[i].participants) = Range(privateChats[c].participants)
                    /\ privateChats'[c].lastMessage =
                            LastMessage(messages'[i].text, messages'[i].sender,
                                        messages'[i].createdAt)]_vars

\* C4: markAsRead applied twice in a row to the same message by the same
\* actor leaves exactly one readBy entry of that actor, and the second
\* application leaves the stores as the first left them.
C4_MarkAsReadIdempotent ==
    \A u \in Users, messageId \in 1..Len(messages) :
        LET once == markAsRead(Stores, u, messageId)
            twice == markAsRead(once.stores, u, messageId)
        IN  once.reason = "ok" =>
                /\ Count(once.stores.messages[messageId].readBy, u) = 1
                /\ twice.reason = "ok"
                /\ twice.stores = once.stores

\* A participant other than the sender has just marked a message read: it
\* lists them once, and marking it again would change nothing.
C4_Witness ==
    /\ lastOp.op = "markAsRead"
    /\ messages[lastOp.msg].sender # lastOp.actor
    /\ Count(messages[lastOp.msg].readBy, lastOp.actor) = 1
    /\ markAsRead(Stores, lastOp.actor, lastOp.msg) = [reason |-> "ok", stores |-> Stores]

\* ------------------------------------------------------------------ SpecRead
\* The read-marking handlers as the event loop runs them: each HTTP request
\* runs up to its next await, and the requests in flight interleave there.
\* The chat u1-u2 holds one message, sent by u1 over HTTP.
Reqs == {"r1", "r2"}
InitRead ==
    /\ clock = 0
    /\ groups = [g \in GroupIds |-> Absent]
    /\ privateChats = <<[NewPrivateChat("u1", "u2") EXCEPT
                            !.lastMessage = LastMessage("hi", "u1", clock)]>>
    /\ messages = <<NewMessage("u1", "u2", NoGroup, "hi", "private", <<"u1", "u2">>, <<>>)>>
    /\ notifications = <<Notif("u2", "new_message", "u1", 1, "PrivateChat", 1)>>
    /\ presence = [u \in Users |-> Absent]
    /\ activeUsers = [u \in Users |-> NoSocket]
    /\ userSockets = [s \in Sockets |-> NoUser]
    /\ sockets = [s \in Sockets |-> FreeSocket]
    /\ typingUsers = NoTyping
    /\ tasks = [r \in Reqs |-> Idle]
    /\ lastOp = NoOp

notReadVars == <<clock, groups, presence, activeUsers, userSockets, sockets, typingUsers>>
\* Every readBy array of the documents ids has room for one more entry.
RoomInReadBy(ids) == \A i \in ids : Len(messages[i].readBy) < MaxReadBy

\* markAsRead up to message.save(): the document is loaded and tested (lines
\* 312-327).  A request that finds nothing, or finds the actor among the
\* readers, ends here.
MarkAsReadFind(r, u, messageId) ==
    /\ tasks[r] = Idle
    /\ FindMessageOfParticipant(messages, messageId, u)
    /\ u \notin Range(messages[messageId].readBy)
    /\ tasks' = [tasks EXCEPT ![r] = [pc |-> "mark_save", user |-> u, msg |-> messageId]]
    /\ UNCHANGED <<messages, privateChats, notifications, lastOp>>
\* message.save() writes the pushed entry (lines 329-333).
MarkAsReadSave(r) ==
    /\ tasks[r].pc = "mark_save"
    /\ RoomInReadBy({tasks[r].msg})
    /\ messages' = PushReader(messages, {tasks[r].msg}, tasks[r].user)
    /\ tasks' = [tasks EXCEPT ![r] = Idle]
    /\ lastOp' = MsgOp("markAsRead", tasks[r].user, "private", NoChat, tasks[r].msg)
    /\ UNCHANGED <<privateChats, notifications>>

\* markAllAsRead up to Message.updateMany: the chat is looked up (lines 388-407).
MarkAllAsReadStart(r, u, chatId) ==
    /\ tasks[r] = Idle
    /\ FindChatOfReader(Stores, u, chatId, "private")
    /\ tasks' = [tasks EXCEPT ![r] = [pc |-> "all_update", user |-> u, chat |-> chatId]]
    /\ UNCHANGED <<messages, privateChats, notifications, lastOp>>
\* Message.updateMany(query, { $push }) runs in the database: the query,
\* 'readBy.user': { $ne: u } included, is tested on each document as it is
\* updated (lines 426-436).
MarkAllAsReadUpdate(r) ==
    /\ tasks[r].pc = "all_update"
    /\ LET ids == MarkAllQuery(messages, tasks[r].user, tasks[r].chat, "private")
       IN  /\ RoomInReadBy(ids)
           /\ messages' = PushReader(messages, ids, tasks[r].user)
    /\ tasks' = [tasks EXCEPT ![r].pc = "all_stamp"]
    /\ UNCHANGED <<privateChats, notifications, lastOp>>
\* lastRead is stamped and the chat's notifications are marked (lines 439-460).
MarkAllAsReadStamp(r) ==
    /\ tasks[r].pc = "all_stamp"
    /\ LET st == StampLastRead(Stores, tasks[r].user, tasks[r].chat, "private")
       IN  /\ privateChats' = st.privateChats
           /\ notifications' = markAllAsReadForChat(notifications, tasks[r].user,
                                                    tasks[r].chat, "PrivateChat")
    /\ tasks' = [tasks EXCEPT ![r] = Idle]
    /\ lastOp' = MsgOp("markAllAsRead", tasks[r].user, "private", tasks[r].chat, NoMsg)
    /\ UNCHANGED messages

\* getChatMessages up to Message.find: the chat is looked up (chatController
\* 48-67).
GetChatMessagesStart(r, u, chatId) ==
    /\ tasks[r] = Idle
    /\ FindChatOfReader(Stores, u, chatId, "private")
    /\ tasks' = [tasks EXCEPT ![r] = [pc |-> "get_find", user |-> u, chat |-> chatId,
                                      unread |-> {}]]
    /\ UNCHANGED <<messages, privateChats, notifications, lastOp>>
\* Message.find returns the page; the handler keeps the ids of the documents
\* that do not list the reader (chatController 95-110).  With none, the
\* request ends.
GetChatMessagesFind(r) ==
    /\ tasks[r].pc = "get_find"
    /\ LET unread == UnreadIds(messages,
                        FirstPage(FetchQuery(Stores, tasks[r].user, tasks[r].chat, "private")),
                        tasks[r].user)
       IN  tasks' = [tasks EXCEPT ![r] =
                        IF unread = {} THEN Idle
                        ELSE [@ EXCEPT !.pc = "get_push", !.unread = unread]]
    /\ UNCHANGED <<messages, privateChats, notifications, lastOp>>
\* Message.updateMany({ _id: { $in: unreadMessageIds } }, { $push }) pushes the
\* reader to every one of those documents (chatController 112-123).
GetChatMessagesPush(r) ==
    /\ tasks[r].pc = "get_push"
    /\ RoomInReadBy(tasks[r].unread)
    /\ messages' = PushReader(messages, tasks[r].unread, tasks[r].user)
    /\ tasks' = [tasks EXCEPT ![r].pc = "get_stamp"]
    /\ UNCHANGED <<privateChats, notifications, lastOp>>
\* lastRead is stamped and the chat's notifications are marked (chatController
\* 125-151).
GetChatMessagesStamp(r) ==
    /\ tasks[r].pc = "get_stamp"
    /\ LET st == StampLastRead(Stores, tasks[r].user, tasks[r].chat, "private")
       IN  /\ privateChats' = st.privateChats
           /\ notifications' = markAllAsReadForChat(notifications, tasks[r].user,
                                                    tasks[r].chat, "PrivateChat")
    /\ tasks' = [tasks EXCEPT ![r] = Idle]
    /\ lastOp' = MsgOp("getChatMessages", tasks[r].user, "private", tasks[r].chat, NoMsg)
    /\ UNCHANGED messages

DoMarkAsReadFind ==
    \E r \in Reqs, u \in Readers, messageId \in 1..MaxMsgs :
        MarkAsReadFind(r, u, messageId) /\ UNCHANGED notReadVars
DoMarkAsReadSave == \E r \in Reqs : MarkAsReadSave(r) /\ UNCHANGED notReadVars
DoMarkAllAsReadStart ==
    \E r \in Reqs, u \in Readers, chatId \in 1..MaxChats :
        MarkAllAsReadStart(r, u, chatId) /\ UNCHANGED notReadVars
DoMarkAllAsReadUpdate == \E r \in Reqs : MarkAllAsReadUpdate(r) /\ UNCHANGED notReadVars
DoMarkAllAsReadStamp == \E r \in Reqs : MarkAllAsReadStamp(r) /\ UNCHANGED notReadVars
DoGetChatMessagesStart ==
    \E r \in Reqs, u \in Readers, chatId \in 1..MaxChats :
        GetChatMessagesStart(r, u, chatId) /\ UNCHANGED notReadVars
DoGetChatMessagesFind == \E r \in Reqs : GetChatMessagesFind(r) /\ UNCHANGED notReadVars
DoGetChatMessagesPush == \E r \in Reqs : GetChatMessagesPush(r) /\ UNCHANGED notReadVars
DoGetChatMessagesStamp == \E r \in Reqs : GetChatMessagesStamp(r) /\ UNCHANGED notReadVars

NextRead ==
    \/ DoMarkAsReadFind
    \/ DoMarkAsReadSave
    \/ DoMarkAllAsReadStart
    \/ DoMarkAllAsReadUpdate
    \/ DoMarkAllAsReadStamp
    \/ DoGetChatMessagesStart
    \/ DoGetChatMessagesFind
    \/ DoGetChatMessagesPush
    \/ DoGetChatMessagesStamp

SpecRead == InitRead /\ [][NextRead]_vars

\* C5: in every reachable state, whatever the interleaving of markAsRead,
\* markAllAsRead and getChatMessages requests of one actor, no message's
\* readBy lists a reader more than once.
C5_ReaderListedOnce ==
    \A i \in 1..Len(messages), u \in Users :
        messages[i].exists => Count(messages[i].readBy, u) <= 1

\* ====================================================================
\* sendMessage as the event loop runs it: the writes of one send, and a
\* store call that fails
\* ====================================================================
\* The record of a send that ended: the Message it saved (NoMsg when none),
\* and the write that failed when it was answered 500.
SendOp(r, u, msg, failedAt) ==
    [op |-> "sendMessage", req |-> r, actor |-> u, message |-> msg,
     ok |-> failedAt = "none", failedAt |-> failedAt]

\* sendMessage to a private chat, up to message.save() (lines 43-131): the
\* chat is looked up and the checks are made.  A request that fails a check
\* ends here.
SendStart(r, u, chatId, text) ==
    /\ tasks[r] = Idle
    /\ SendMessageCheck(u, chatId, "private", text, <<>>) = "ok"
    /\ tasks' = [tasks EXCEPT ![r] =
            [pc |-> "send_msg", user |-> u, chat |-> chatId, text |-> text, msg |-> NoMsg]]
    /\ UNCHANGED <<messages, privateChats, notifications, lastOp>>
\* message.save() writes the Message (line 131).
SendSaveMessage(r) ==
    /\ tasks[r].pc = "send_msg"
    /\ Len(messages) < MaxMsgs
    /\ LET t == tasks[r]
           chat == privateChats[t.chat]
       IN  messages' = Append(messages,
                NewMessage(t.user, OtherParticipant(chat, t.user), NoGroup, t.text,
                           "private", chat.participants, <<>>))
    /\ tasks' = [tasks EXCEPT ![r].pc = "send_chat", ![r].msg = Len(messages) + 1]
    /\ UNCHANGED <<privateChats, notifications, lastOp>>
\* chat.save() writes the lastMessage assigned to the loaded chat (lines
\* 134-139).
SendSaveChat(r) ==
    /\ tasks[r].pc = "send_chat"
    /\ privateChats' = [privateChats EXCEPT
            ![tasks[r].chat].lastMessage = LastMessage(tasks[r].text, tasks[r].user, clock)]
    /\ tasks' = [tasks EXCEPT ![r].pc = "send_notif"]
    /\ UNCHANGED <<messages, notifications, lastOp>>
\* notification.save() writes the recipient's notification and the request
\* is answered 201 (lines 145-177).
SendSaveNotification(r) ==
    /\ tasks[r].pc = "send_notif"
    /\ Len(notifications) < MaxNotifs
    /\ LET t == tasks[r]
       IN  /\ notifications' = Append(notifications,
                    Notif(OtherParticipant(privateChats[t.chat], t.user), "new_message",
                          t.user, t.chat, "PrivateChat", t.msg))
           /\ lastOp' = SendOp(r, t.user, t.msg, "none")
    /\ tasks' = [tasks EXCEPT ![r] = Idle]
    /\ UNCHANGED <<messages, privateChats>>
\* A save of the send throws: the catch answers 500 (lines 281-288) and the
\* writes made before it stay.
SendStoreFails(r) ==
    /\ tasks[r].pc \in {"send_msg", "send_chat", "send_notif"}
    /\ lastOp' = SendOp(r, tasks[r].user, tasks[r].msg, tasks[r].pc)
    /\ tasks' = [tasks EXCEPT ![r] = Idle]
    /\ UNCHANGED <<messages, privateChats, notifications>>

\* -------------------------------------------------------------- SpecSendSteps
\* The chat u1-u2 exists and is empty.  Two HTTP requests at a time send to
\* it, from either participant; their writes interleave and may fail.
SendTexts == {"hi", "yo"}
InitSendSteps ==
    /\ clock = 0
    /\ groups = [g \in GroupIds |-> Absent]
    /\ privateChats = <<NewPrivateChat("u1", "u2")>>
    /\ messages = <<>>
    /\ notifications = <<>>
    /\ presence = [u \in Users |-> Absent]
    /\ activeUsers = [u \in Users |-> NoSocket]
    /\ userSockets = [s \in Sockets |-> NoUser]
    /\ sockets = [s \in Sockets |-> FreeSocket]
    /\ typingUsers = NoTyping
    /\ tasks = [r \in Reqs |-> Idle]
    /\ lastOp = NoOp

DoSendStart ==
    \E r \in Reqs, u \in Readers, text \in SendTexts :
        SendStart(r, u, 1, text) /\ UNCHANGED notReadVars
DoSendSaveMessage == \E r \in Reqs : SendSaveMessage(r) /\ UNCHANGED notReadVars
DoSendSaveChat == \E r \in Reqs : SendSaveChat(r) /\ UNCHANGED notReadVars
DoSendSaveNotification == \E r \in Reqs : SendSaveNotification(r) /\ UNCHANGED notReadVars
DoSendStoreFails == \E r \in Reqs : SendStoreFails(r) /\ UNCHANGED notReadVars

NextSendSteps ==
    \/ DoSendStart
    \/ DoSendSaveMessage
    \/ DoSendSaveChat
    \/ DoSendSaveNotification
    \/ DoSendStoreFails

SpecSendSteps == InitSendSteps /\ [][NextSendSteps]_vars

\* C26: when no send is in flight and every send that saved a Message has
\* completed its three writes, the chat's cached lastMessage is that of the
\* Message saved last.
C26_LastMessageIsLatest ==
    (/\ \A r \in Reqs : tasks[r] = Idle
     /\ messages # <<>>
     /\ Len(notifications) = Len(messages))
        => /\ privateChats[1].lastMessage.text = messages[Len(messages)].text
           /\ privateChats[1].lastMessage.sender = messages[Len(messages)].sender

\* C27: a send answered with a failure because its write of lastMessage or
\* of the notification failed has left no Message of its own in the store.
C27_FailedSendPersistsNothing ==
    [][\A r \in Reqs :
        (/\ tasks[r].pc \in {"send_chat", "send_notif"}
         /\ tasks'[r] = Idle
         /\ lastOp'.op = "sendMessage" /\ lastOp'.req = r /\ ~lastOp'.ok)
            => ~(/\ tasks[r].msg \in 1..Len(messages')
                 /\ messages'[tasks[r].msg].exists)]_vars

\* ------------------------------------------------------------ addMembers steps
\* addMembers runs across three awaits: ChatGroup.findOne, User.find and
\* group.save().  The requested ids are compared with the members of the
\* document as loaded; group.members.push(...) followed by save() is sent to
\* the store as a $push of the new elements, which is applied to the array
\* as it stands in the store (the ChatGroup schema sets no
\* optimisticConcurrency, so a $push carries no version condition).
AddOp(r, actor, gid, ok) ==
    [op |-> "addMembers", req |-> r, actor |-> actor, group |-> gid, ok |-> ok]

\* Lines 360-423: the body check, ChatGroup.findOne, the permission check and
\* the filter against the members loaded.  A refused request ends here.
AddMembersStart(r, actor, gid, members) ==
    /\ tasks[r] = Idle
    /\ LET g == groups[gid]
           newMemberIds == SeqFilter(members, Ids \ Range(MemberIds(g)))
       IN  IF \/ members = <<>>
              \/ ~FindGroupOfMember(gid, actor)
              \/ ~CanAddMembers(g, actor)
              \/ newMemberIds = <<>>
           THEN /\ lastOp' = AddOp(r, actor, gid, FALSE)
                /\ UNCHANGED tasks
           ELSE /\ tasks' = [tasks EXCEPT ![r] =
                        [pc |-> "add_users", actor |-> actor, group |-> gid,
                         newMemberIds |-> newMemberIds, newMembers |-> <<>>]]
                /\ UNCHANGED lastOp
    /\ UNCHANGED <<groups, notifications>>
\* User.find({_id: {$in: newMemberIds}}) (lines 426-429).
AddMembersFindUsers(r) ==
    /\ tasks[r].pc = "add_users"
    /\ tasks' = [tasks EXCEPT ![r].pc = "add_save",
                              ![r].newMembers = FindUsers(tasks[r].newMemberIds)]
    /\ UNCHANGED <<groups, notifications, lastOp>>
\* The pushes, group.save() and the notifications to the new members (lines
\* 441-470).
AddMembersSave(r) ==
    /\ tasks[r].pc = "add_save"
    /\ LET t == tasks[r]
           pushed == [i \in 1..Len(t.newMembers) |-> Member(t.newMembers[i], "member", clock)]
       IN  /\ groups' = [groups EXCEPT ![t.group].members = @ \o pushed]
           /\ SaveNotifs([i \in 1..Len(t.newMembers) |->
                  Notif(t.newMembers[i], "added_to_group", t.actor, t.group, "ChatGroup", NoMsg)])
           /\ lastOp' = AddOp(r, t.actor, t.group, TRUE)
    /\ tasks' = [tasks EXCEPT ![r] = Idle]

\* --------------------------------------------------------------- SpecAddSteps
\* Group 1 is stored with u1 (creator, admin) and u2; group 2 is created by
\* createGroup.  Two addMembers requests at a time run against either group,
\* from either of its first two members.
notAddVars == <<clock, privateChats, messages, presence, activeUsers,
                userSockets, sockets, typingUsers>>
InitAddSteps ==
    /\ clock = 0
    /\ groups = [g \in GroupIds |->
            IF g = 1 THEN PreSaveNew(NewGroupDoc("u1", "Team", <<"u2">>, <<>>))
            ELSE Absent]
    /\ privateChats = <<>>
    /\ messages = <<>>
    /\ notifications = <<>>
    /\ presence = [u \in Users |-> Absent]
    /\ activeUsers = [u \in Users |-> NoSocket]
    /\ userSockets = [s \in Sockets |-> NoUser]
    /\ sockets = [s \in Sockets |-> FreeSocket]
    /\ typingUsers = NoTyping
    /\ tasks = [r \in Reqs |-> Idle]
    /\ lastOp = NoOp

DoAddMembersStart ==
    /\ \E r \in Reqs, actor \in Readers, gid \in GroupIds, members \in MemberRequests :
            AddMembersStart(r, actor, gid, members)
    /\ UNCHANGED notAddVars
DoAddMembersFindUsers == \E r \in Reqs : AddMembersFindUsers(r) /\ UNCHANGED notAddVars
DoAddMembersSave ==
    /\ notifications = <<>>
    /\ \E r \in Reqs : AddMembersSave(r)
    /\ UNCHANGED notAddVars
DoAddStepsCreateGroup ==
    /\ notifications = <<>>
    /\ \E members \in MemberRequests : CreateGroup("u1", 2, "Team", members, <<>>)
    /\ UNCHANGED <<notAddVars, tasks>>

NextAddSteps ==
    \/ DoAddMembersStart
    \/ DoAddMembersFindUsers
    \/ DoAddMembersSave
    \/ DoAddStepsCreateGroup
    \/ ExpireNotifications

SpecAddSteps == InitAddSteps /\ [][NextAddSteps]_vars

\* C32: no identity appears more than once in the members list of a group.
C32_NoDuplicateMembers ==
    \A gid \in GroupIds :
        groups[gid].exists =>
            \A u \in Users : Count(MemberIds(groups[gid]), u) <= 1

\* ====================================================================
\* Presence: the connection handler and the disconnect handler of the
\* socket router, and the connection registry (activeUsers, userSockets)
\* ====================================================================
\* Connections opened so far; a socket id is never used twice.
Opened == {s \in Sockets : sockets[s].state # "free"}
\* The record of a socket event handled.
SocketOp(op, u, s) == [op |-> op, actor |-> u, socket |-> s, ok |-> TRUE]

notPresenceVars == <<groups, privateChats, messages, notifications>>

\* io.on('connection'), up to the first await (lines 454-465): the
\* authenticated socket s of account u is entered in both maps.
ConnectOpen(s, u) ==
    /\ sockets[s].state = "free"
    /\ tasks[s] = Idle
    /\ sockets' = [sockets EXCEPT ![s] =
            [state |-> "open", user |-> u, rooms |-> {}, seq |-> Cardinality(Opened) + 1]]
    /\ activeUsers' = [activeUsers EXCEPT ![u] = s]
    /\ userSockets' = [userSockets EXCEPT ![s] = u]
    /\ tasks' = [tasks EXCEPT ![s] = [pc |-> "conn_find", found |-> FALSE]]
    /\ lastOp' = SocketOp("connection", u, s)
    /\ UNCHANGED <<clock, presence, typingUsers>>
\* UserPresence.findOne({ user: userId }) returns (line 465).
ConnectFind(s) ==
    /\ tasks[s].pc = "conn_find"
    /\ tasks' = [tasks EXCEPT ![s] =
            [pc |-> "conn_save", found |-> presence[sockets[s].user].exists]]
    /\ UNCHANGED <<clock, presence, sockets, activeUsers, userSockets, typingUsers, lastOp>>
\* presence.save() writes status, lastActive and socketId (lines 466-494);
\* user:online is broadcast and the online list is queried (lines 497-506).
ConnectSave(s) ==
    /\ tasks[s].pc = "conn_save"
    /\ presence' = [presence EXCEPT ![sockets[s].user] =
            [exists |-> TRUE, status |-> "online", lastActive |-> clock, socketId |-> s]]
    /\ tasks' = [tasks EXCEPT ![s] = [pc |-> "conn_list", found |-> TRUE]]
    /\ UNCHANGED <<clock, sockets, activeUsers, userSockets, typingUsers, lastOp>>
\* UserPresence.find of the online list returns (line 503); users:online is
\* emitted and the socket's event handlers, 'disconnect' among them, are
\* registered (lines 516-1117).
ConnectList(s) ==
    /\ tasks[s].pc = "conn_list"
    /\ tasks' = [tasks EXCEPT ![s] = Idle]
    /\ UNCHANGED <<clock, presence, sockets, activeUsers, userSockets, typingUsers, lastOp>>
\* The connection closes while the connection handler is at one of its
\* awaits: 'disconnect' is emitted with no listener registered; the listener
\* registered later (line 1072) is not called for a socket already closed.
CloseBeforeHandlers(s) ==
    /\ sockets[s].state = "open"
    /\ tasks[s].pc \in {"conn_find", "conn_save", "conn_list"}
    /\ sockets' = [sockets EXCEPT ![s].state = "closed", ![s].rooms = {}]
    /\ UNCHANGED <<clock, presence, activeUsers, userSockets, typingUsers, tasks, lastOp>>

\* socket.on('disconnect'), up to the first await (lines 1072-1081): the
\* account is deleted from activeUsers and the socket from userSockets.  The
\* handler is registered when the connection handler has finished.
DisconnectStart(s) ==
    /\ sockets[s].state = "open"
    /\ tasks[s] = Idle
    /\ sockets' = [sockets EXCEPT ![s].state = "closed", ![s].rooms = {}]
    /\ activeUsers' = [activeUsers EXCEPT ![sockets[s].user] = NoSocket]
    /\ userSockets' = [userSockets EXCEPT ![s] = NoUser]
    /\ tasks' = [tasks EXCEPT ![s] = [pc |-> "disc_find", found |-> FALSE, socketId |-> NoSocket]]
    /\ lastOp' = SocketOp("disconnect", sockets[s].user, s)
    /\ UNCHANGED <<clock, presence, typingUsers>>
\* UserPresence.findOne({ user: userId }) returns (line 1081).
DisconnectFind(s) ==
    /\ tasks[s].pc = "disc_find"
    /\ LET p == presence[sockets[s].user]
       IN  tasks' = [tasks EXCEPT ![s] =
                [pc |-> "disc_save", found |-> p.exists,
                 socketId |-> IF p.exists THEN p.socketId ELSE NoSocket]]
    /\ UNCHANGED <<clock, presence, sockets, activeUsers, userSockets, typingUsers, lastOp>>
\* The loaded document is set offline, its socketId cleared when it is this
\* socket's, and saved (lines 1082-1092); then the account is taken out of
\* every typing set (lines 1098-1110).
DisconnectSave(s) ==
    /\ tasks[s].pc = "disc_save"
    /\ LET u == sockets[s].user
       IN  /\ presence' =
                IF ~tasks[s].found THEN presence
                ELSE [presence EXCEPT
                        ![u].exists = TRUE,
                        ![u].status = "offline",
                        ![u].lastActive = clock,
                        ![u].socketId = IF tasks[s].socketId = s THEN NoSocket ELSE @]
           /\ typingUsers' = [r \in Rooms |->
                [typingUsers[r] EXCEPT !.users = @ \ {u}]]
    /\ tasks' = [tasks EXCEPT ![s] = Idle]
    /\ UNCHANGED <<clock, sockets, activeUsers, userSockets, lastOp>>

\* -------------------------------------------------------------- SpecPresence
\* Nobody is connected.  Accounts u1 and u2 open connections and close them;
\* the handlers interleave at their awaits.
PresenceUsers == {"u1", "u2"}
InitPresence == InitEmpty

PresenceTick ==
    Tick /\ UNCHANGED <<groups, privateChats, messages, notifications, presence,
                        activeUsers, userSockets, sockets, typingUsers, tasks, lastOp>>
DoConnectOpen ==
    \E s \in Sockets, u \in PresenceUsers : ConnectOpen(s, u) /\ UNCHANGED notPresenceVars
DoConnectFind == \E s \in Sockets : ConnectFind(s) /\ UNCHANGED notPresenceVars
DoConnectSave == \E s \in Sockets : ConnectSave(s) /\ UNCHANGED notPresenceVars
DoConnectList == \E s \in Sockets : ConnectList(s) /\ UNCHANGED notPresenceVars
DoCloseBeforeHandlers ==
    \E s \in Sockets : CloseBeforeHandlers(s) /\ UNCHANGED notPresenceVars
DoDisconnectStart == \E s \in Sockets : DisconnectStart(s) /\ UNCHANGED notPresenceVars
DoDisconnectFind == \E s \in Sockets : DisconnectFind(s) /\ UNCHANGED notPresenceVars
DoDisconnectSave == \E s \in Sockets : DisconnectSave(s) /\ UNCHANGED notPresenceVars

NextPresence ==
    \/ PresenceTick
    \/ DoConnectOpen
    \/ DoConnectFind
    \/ DoConnectSave
    \/ DoConnectList
    \/ DoCloseBeforeHandlers
    \/ DoDisconnectStart
    \/ DoDisconnectFind
    \/ DoDisconnectSave

SpecPresence == InitPresence /\ [][NextPresence]_vars

\* ====================================================================
\* The handshake middleware (io.use) and status:update
\* ====================================================================
\* handshake.auth.token: none, a token jwt.verify refuses (it names u1), and
\* verified tokens naming an account or an id no account has.
Tokens ==
    {[kind |-> "missing", userId |-> NoUser], [kind |-> "invalid", userId |-> "u1"]}
    \cup {[kind |-> "valid", userId |-> u] : u \in {"u1", "u2", Ghost}}

\* io.use with the token decoded but not verified.
AuthenticateUnverified(token) ==
    IF token.kind = "missing" THEN NoUser
    ELSE IF token.userId \notin Users THEN NoUser
    ELSE token.userId

\* io.use (lines 420-451): the account the socket is authenticated as, or
\* NoUser when next() is called with an error: no token, a token jwt.verify
\* throws on, or a userId User.findById finds no account for.
Authenticate(token) ==
    IF token.kind = "missing" THEN NoUser
    ELSE IF token.kind # "valid" THEN NoUser
    ELSE IF token.userId \notin Users THEN NoUser
    ELSE token.userId

\* A connection attempt of socket s: refused by the middleware, or passed to
\* the connection handler.
Handshake(s, token) ==
    IF Authenticate(token) = NoUser
    THEN /\ sockets[s].state = "free"
         /\ tasks[s] = Idle
         /\ sockets' = [sockets EXCEPT ![s].state = "refused"]
         /\ lastOp' = [op |-> "handshake", actor |-> NoUser, socket |-> s, ok |-> FALSE]
         /\ UNCHANGED <<clock, presence, activeUsers, userSockets, typingUsers, tasks>>
    ELSE ConnectOpen(s, Authenticate(token))

\* The statuses status:update accepts (line 1026).
AcceptedStatuses == {"online", "away", "busy", "invisible"}
\* The statuses a status:update event may carry.
StatusRequests == {"away", "invisible", "offline"}
\* status:update broadcasting user:status whatever the status.
BroadcastsStatusAlways(status) == TRUE
\* status:update broadcasts user:status unless the status is invisible
\* (line 1037).
BroadcastsStatus(status) == status # "invisible"
\* UserPresence.methods.updateStatus(status, socketId): the record takes the
\* status and the socket and is saved.
updateStatus(p, status, socketId) ==
    [p EXCEPT !.status = status, !.socketId = socketId, !.lastActive = clock]

\* The record of a status:update that ended: reply is the event emitted to
\* the socket, broadcast whether user:status went to the other sockets.
StatusOp(s, status, reply, broadcast) ==
    [op |-> "status:update", actor |-> sockets[s].user, socket |-> s, status |-> status,
     ok |-> reply = "status:updated", reply |-> reply, broadcast |-> broadcast]

\* status:update, up to the await (lines 1025-1032): a status outside the
\* accepted ones is answered with an error.
StatusUpdateStart(s, status) ==
    /\ sockets[s].state = "open"
    /\ tasks[s] = Idle
    /\ IF status \notin AcceptedStatuses
       THEN /\ lastOp' = StatusOp(s, status, "error", FALSE)
            /\ UNCHANGED tasks
       ELSE /\ tasks' = [tasks EXCEPT ![s] = [pc |-> "status_find", status |-> status]]
            /\ UNCHANGED lastOp
    /\ UNCHANGED <<clock, presence, sockets, activeUsers, userSockets, typingUsers>>
\* UserPresence.findOne returns (lines 1032-1033): without a record the
\* handler ends, emitting nothing.
StatusUpdateFind(s) ==
    /\ tasks[s].pc = "status_find"
    /\ IF presence[sockets[s].user].exists
       THEN /\ tasks' = [tasks EXCEPT ![s].pc = "status_save"]
            /\ UNCHANGED lastOp
       ELSE /\ tasks' = [tasks EXCEPT ![s] = Idle]
            /\ lastOp' = StatusOp(s, tasks[s].status, "none", FALSE)
    /\ UNCHANGED <<clock, presence, sockets, activeUsers, userSockets, typingUsers>>
\* presence.updateStatus returns (lines 1034-1047): user:status is broadcast
\* unless the status is invisible, status:updated is emitted.
StatusUpdateSave(s) ==
    /\ tasks[s].pc = "status_save"
    /\ presence' = [presence EXCEPT ![sockets[s].user] =
            updateStatus(@, tasks[s].status, s)]
    /\ lastOp' = StatusOp(s, tasks[s].status, "status:updated",
                          BroadcastsStatus(tasks[s].status))
    /\ tasks' = [tasks EXCEPT ![s] = Idle]
    /\ UNCHANGED <<clock, sockets, activeUsers, userSockets, typingUsers>>

\* ---------------------------------------------------------------- SpecStatus
\* Nobody is connected.  Two connection attempts arrive, with every kind of
\* token; connected sockets send status:update events and close.
StatusSockets == {"s1", "s2"}
InitStatus == InitEmpty
DoHandshake ==
    \E s \in StatusSockets, token \in Tokens :
        /\ sockets[s].state = "free"
        /\ Handshake(s, token)
        /\ UNCHANGED notPresenceVars
DoStatusUpdateStart ==
    \E s \in Sockets, status \in StatusRequests :
        StatusUpdateStart(s, status) /\ UNCHANGED notPresenceVars
DoStatusUpdateFind == \E s \in Sockets : StatusUpdateFind(s) /\ UNCHANGED notPresenceVars
DoStatusUpdateSave == \E s \in Sockets : StatusUpdateSave(s) /\ UNCHANGED notPresenceVars

NextStatus ==
    \/ DoHandshake
    \/ DoConnectFind
    \/ DoConnectSave
    \/ DoConnectList
    \/ DoStatusUpdateStart
    \/ DoStatusUpdateFind
    \/ DoStatusUpdateSave
    \/ DoDisconnectStart
    \/ DoDisconnectFind
    \/ DoDisconnectSave

SpecStatus == InitStatus /\ [][NextStatus]_vars

\* C24: a connection attempt whose token is missing, is refused by
\* jwt.verify or names no account is refused: the socket is not connected,
\* its connection handler (which broadcasts user:online) is not started, and
\* the registry, the presence records and the typing sets are unchanged.
C24_RefusedHandshakeChangesNothing ==
    [][\A s \in Sockets, token \in Tokens :
        (/\ lastOp'.op \in {"handshake", "connection"}
         /\ lastOp'.socket = s
         /\ sockets[s].state = "free"
         /\ Handshake(s, token)
         /\ (token.kind # "valid" \/ token.userId \notin Users))
            => /\ sockets'[s].state = "refused"
               /\ tasks' = tasks
               /\ activeUsers' = activeUsers
               /\ userSockets' = userSockets
               /\ presence' = presence
               /\ typingUsers' = typingUsers]_vars

\* A connection attempt has just been refused while another socket is
\* connected and online.
C24_Witness ==
    /\ lastOp.op = "handshake" /\ ~lastOp.ok
    /\ sockets[lastOp.socket].state = "refused"
    /\ \E u \in Users :
            /\ activeUsers[u] \in Sockets
            /\ presence[u].exists /\ presence[u].status = "online"

\* C25: a status:update that ends with status:updated has stored its status,
\* one of the accepted ones, on the caller's presence record, and user:status
\* was broadcast exactly when the status is not invisible; a status:update
\* with a status outside the accepted ones ends at once with an error and
\* the presence records unchanged.
C25_StatusUpdateEffect ==
    [][\A s \in Sockets :
        /\ (tasks[s].pc = "status_save" /\ tasks'[s] = Idle) =>
                /\ tasks[s].status \in AcceptedStatuses
                /\ presence'[sockets[s].user].exists
                /\ presence'[sockets[s].user].status = tasks[s].status
                /\ lastOp'.reply = "status:updated"
                /\ lastOp'.broadcast <=> tasks[s].status # "invisible"
        /\ \A status \in StatusRequests \ AcceptedStatuses :
                (/\ lastOp' # lastOp
                 /\ lastOp'.op = "status:update"
                 /\ lastOp'.socket = s
                 /\ StatusUpdateStart(s, status))
                    => (presence' = presence /\ lastOp'.reply = "error")]_vars

\* One socket has just made its account invisible without a broadcast.
C25_Witness ==
    /\ lastOp.op = "status:update" /\ lastOp.ok
    /\ lastOp.status = "invisible" /\ ~lastOp.broadcast
    /\ presence[lastOp.actor].status = "invisible"

\* C10: when an account has closed an older connection and its newest
\* connection is open, whichever of the two events came first, activeUsers
\* maps the account to the newest connection.
C10_NewerConnectionKept ==
    \A c1 \in Sockets, c2 \in Sockets :
        (/\ sockets[c1].state = "closed"
         /\ sockets[c2].state = "open"
         /\ sockets[c1].user = sockets[c2].user
         /\ sockets[c1].seq < sockets[c2].seq
         /\ \A c3 \in Opened : sockets[c3].user = sockets[c2].user
                                    => sockets[c3].seq <= sockets[c2].seq)
            => activeUsers[sockets[c2].user] = c2

\* C11: a disconnect of connection c of account U sets U's presence record
\* offline only when the record's socketId is c; when the record holds a
\* newer connection of U, the save of c's disconnect leaves its status and
\* its socketId as they were.
C11_StaleDisconnectKeepsPresence ==
    [][\A c \in Sockets :
        (tasks[c].pc = "disc_save" /\ tasks'[c] = Idle) =>
            LET u == sockets[c].user
                held == presence[u].socketId
            IN  /\ (presence[u].status # "offline" /\ presence'[u].status = "offline")
                        => held = c
                /\ (held \in Sockets /\ sockets[held].user = u
                        /\ sockets[held].seq > sockets[c].seq)
                        => /\ presence'[u].status = presence[u].status
                           /\ presence'[u].socketId = held]_vars

\* C12: a connection that has closed and for which no handler is left to
\* run has had its disconnect sequence run: neither activeUsers nor
\* userSockets holds an entry for it, also when it closed while its
\* connection handler was waiting at an await.
C12_ClosedConnectionUnregistered ==
    \A c \in Sockets :
        (sockets[c].state = "closed" /\ tasks[c] = Idle) =>
            /\ activeUsers[sockets[c].user] # c
            /\ userSockets[c] = NoUser
\* ====================================================================
\* Typing indicators
\* ====================================================================
\* handleTypingStart({ roomId, userId, username }): the typing Map it leaves
\* (lines 909-933).
TypingStart(roomId, userId) ==
    IF roomId = NoRoom THEN typingUsers
    ELSE [typingUsers EXCEPT ![roomId] =
            [has |-> TRUE, users |-> @.users \cup {userId}]]

TypingOp(op, u, s, roomId) ==
    [op |-> op, actor |-> u, socket |-> s, room |-> roomId, ok |-> TRUE]

\* socket.on('typing:start') of the open socket s (lines 900-902).
typingStart(s, roomId) ==
    /\ sockets[s].state = "open"
    /\ tasks[s] = Idle
    /\ typingUsers' = TypingStart(roomId, sockets[s].user)
    /\ lastOp' = TypingOp("typing:start", sockets[s].user, s, roomId)
\* socket.on('typing:stop') of the open socket s (lines 905-907).
typingStop(s, roomId) ==
    /\ sockets[s].state = "open"
    /\ tasks[s] = Idle
    /\ typingUsers' = TypingStop(roomId, sockets[s].user)
    /\ lastOp' = TypingOp("typing:stop", sockets[s].user, s, roomId)

\* ---------------------------------------------------------------- SpecTyping
\* u1 is connected as s1 and u2 as s2, and their private chat exists.  Each
\* sends typing:start, typing:stop and private:message events for their
\* room or for no room, and disconnects.
TypingSockets == {"s1", "s2"}
TypingRoomIds == {PrivateRoom("u1", "u2"), NoRoom}
InitTyping ==
    /\ clock = 0
    /\ groups = [g \in GroupIds |-> Absent]
    /\ privateChats = <<NewPrivateChat("u1", "u2")>>
    /\ messages = <<>>
    /\ notifications = <<>>
    /\ presence = [u \in Users |-> Absent]
    /\ activeUsers = [u \in Users |->
            IF u = "u1" THEN "s1" ELSE IF u = "u2" THEN "s2" ELSE NoSocket]
    /\ userSockets = SocketUser
    /\ sockets = [s \in Sockets |->
            IF SocketUser[s] = NoUser
            THEN FreeSocket
            ELSE [state |-> "open", user |-> SocketUser[s],
                  rooms |-> {PrivateRoom("u1", "u2")},
                  seq |-> UserRank(SocketUser[s])]]
    /\ typingUsers = NoTyping
    /\ tasks = [s \in Sockets |-> Idle]
    /\ lastOp = NoOp

notTypingVars == <<clock, groups, privateChats, messages, notifications, presence,
                   activeUsers, userSockets, sockets, tasks>>
DoTypingStart ==
    \E s \in TypingSockets, roomId \in TypingRoomIds :
        typingStart(s, roomId) /\ UNCHANGED notTypingVars
DoTypingStop ==
    \E s \in TypingSockets, roomId \in TypingRoomIds :
        typingStop(s, roomId) /\ UNCHANGED notTypingVars
DoTypingPrivateMessage ==
    \E s \in TypingSockets, roomId \in TypingRoomIds :
        /\ sockets[s].state = "open"
        /\ tasks[s] = Idle
        /\ LET u == sockets[s].user
               r == privateMessage(s, roomId, OtherParticipant(privateChats[1], u),
                                   "hi", 1, <<>>)
           IN  /\ Commit(r)
               /\ typingUsers' = IF r.reason = "ok" THEN TypingStop(roomId, u)
                                 ELSE typingUsers
               /\ lastOp' = IF r.stores = Stores
                            THEN [TypingOp("private:message", u, s, roomId) EXCEPT !.ok = FALSE]
                            ELSE TypingOp("private:message", u, s, roomId)
        /\ UNCHANGED notStoreVars
DoTypingDisconnectStart ==
    \E s \in TypingSockets : DisconnectStart(s) /\ UNCHANGED notPresenceVars
DoTypingDisconnectFind ==
    \E s \in TypingSockets : DisconnectFind(s) /\ UNCHANGED notPresenceVars
DoTypingDisconnectSave ==
    \E s \in TypingSockets : DisconnectSave(s) /\ UNCHANGED notPresenceVars

NextTyping ==
    \/ DoTypingStart
    \/ DoTypingStop
    \/ DoTypingPrivateMessage
    \/ DoTypingDisconnectStart
    \/ DoTypingDisconnectFind
    \/ DoTypingDisconnectSave

SpecTyping == InitTyping /\ [][NextTyping]_vars

\* C33: an identity is in a room's typing set only if it has not
\* disconnected since its last typing:start for the room: an identity none
\* of whose connections is open is in no room's typing set.
C33_TypingOnlyWhileConnected ==
    \A roomId \in Rooms : \A u \in typingUsers[roomId].users :
        \E s \in Sockets : sockets[s].state = "open" /\ sockets[s].user = u

\* C34: the identity-to-connection map sends u to s if and only if the
\* connection-to-identity map sends s to u.
C34_RegistryMapsAreInverses ==
    \A u \in Users, s \in Sockets :
        (activeUsers[u] = s) <=> (userSockets[s] = u)

=============================================================================
